---- MODULE Spec2Model ----
(***************************************************************************)
(* Event Kit recommendation engine (agent.py, core.py).                    *)
(*                                                                         *)
(* Strings are sequences of one-character strings, so that lower(),        *)
(* strip() and equality are computed rather than assumed.  Slot            *)
(* identifiers (start/end) are only ever compared for equality by the      *)
(* code and are kept as opaque strings; None is the value dict.get()       *)
(* yields for a missing key.  A session is a dict: a function whose        *)
(* domain is the set of keys it carries.                                   *)
(*                                                                         *)
(* Floats are binary floating-point numbers with MantBits significant bits *)
(* and a smallest quantum of 2^-FracBits, rounded to nearest, ties to      *)
(* even (IEEE 754 with a short significand).  A float is represented by    *)
(* the integer number of quanta it is made of.                             *)
(***************************************************************************)
EXTENDS Integers, Sequences, FiniteSets, TLC

VARIABLES sessions, weights, call, result, threads, get_events_calls,
          service, now, graph_api, history, imported, auth, cache_file, limiter

vars == <<sessions, weights, call, result, threads, get_events_calls,
          service, now, graph_api, history, imported, auth, cache_file, limiter>>

\* the state of a GraphEventService, its clock and its traffic
serviceVars == <<service, now, graph_api, history>>
accessVars == <<auth, cache_file, limiter>>

(***************************************************************************)
(* Bounds                                                                  *)
(***************************************************************************)
MaxSessions == 2
MaxTop == 3
MaxInterests == 2
MaxGraphInterests == 1
MaxSlotSessions == 3
MaxTags == 2
MaxCallers == 2
MaxTime == 4
MaxRequests == 5
MaxWords == 5
MantBits == 8
FracBits == 10

(***************************************************************************)
(* Floating point                                                          *)
(***************************************************************************)
Pow2(n) == IF n <= 0 THEN 1 ELSE 2 ^ n

RECURSIVE BitLen(_)
BitLen(x) == IF x <= 0 THEN 0 ELSE 1 + BitLen(x \div 2)

One == Pow2(FracBits)

\* lo or lo + 1, whichever is nearer to lo + r/den, ties to even
Nearest(lo, r, den) ==
    IF 2 * r < den THEN lo
    ELSE IF 2 * r > den THEN lo + 1
    ELSE IF lo % 2 = 0 THEN lo ELSE lo + 1

\* nearest integer to num/den, ties to even
RoundHalfEven(num, den) == Nearest(num \div den, num % den, den)

\* the multiple of the quantum e nearest to num/den
RoundTo(num, den, e) == RoundHalfEven(num, den * e) * e

\* the float nearest to num/den: at most MantBits significant bits
Round(num, den) == RoundTo(num, den, Pow2(BitLen(num \div den) - MantBits))

FromRatio(n, d) == Round(n * One, d)
FromInt(n) == Round(n * One, 1)
FAdd(a, b) == Round(a + b, 1)
FMul(a, b) == Round(a * b, One)

\* the literal 0.01 of score_session
Hundredth == FromRatio(1, 100)

\* builtin sum(): starts from 0 and adds left to right
RECURSIVE PySum(_)
PySum(xs) == IF xs = <<>> THEN 0
             ELSE FAdd(PySum(SubSeq(xs, 1, Len(xs) - 1)), xs[Len(xs)])

(***************************************************************************)
(* Strings                                                                 *)
(***************************************************************************)
LowerOf == [A |-> "a", I |-> "i", M |-> "m", L |-> "l", D |-> "d", S |-> "s"]

LowerChar(c) == IF c \in DOMAIN LowerOf THEN LowerOf[c] ELSE c

\* str.lower()
Lower(s) == [i \in 1..Len(s) |-> LowerChar(s[i])]

IsSpace(c) == c = " "

RECURSIVE LStrip(_)
LStrip(s) == IF s # <<>> /\ IsSpace(Head(s)) THEN LStrip(Tail(s)) ELSE s

RECURSIVE RStrip(_)
RStrip(s) == IF s # <<>> /\ IsSpace(s[Len(s)])
             THEN RStrip(SubSeq(s, 1, Len(s) - 1)) ELSE s

\* str.strip()
Strip(s) == RStrip(LStrip(s))

(***************************************************************************)
(* Python helpers                                                          *)
(***************************************************************************)
None == "None"

\* dict.get(key, default)
Get(d, k, default) == IF k \in DOMAIN d THEN d[k] ELSE default

Range(s) == {s[i] : i \in 1..Len(s)}

Min(a, b) == IF a < b THEN a ELSE b
Max(a, b) == IF a > b THEN a ELSE b

\* seq[:n + 1]
SliceToOneMore(s, n) == SubSeq(s, 1, Min(n + 1, Len(s)))

\* seq[:n], negative n counted from the end
SliceTo(s, n) ==
    IF n >= 0 THEN SubSeq(s, 1, Min(n, Len(s)))
    ELSE SubSeq(s, 1, Max(0, Len(s) + n))

(***************************************************************************)
(* agent.py: scoring                                                       *)
(***************************************************************************)
\* tags = [t.lower() for t in session.get("tags", [])]
LoweredTags(session) ==
    [i \in 1..Len(Get(session, "tags", <<>>)) |-> Lower(Get(session, "tags", <<>>)[i])]

\* t occurs in s as a contiguous piece
IsSubstring(t, s) ==
    \E k \in 0..(Len(s) - Len(t)) : SubSeq(s, k + 1, k + Len(t)) = t

\* substring test against each interest instead of list membership
InterestHitsSubstring(tags, interests) ==
    Cardinality({i \in 1..Len(tags) :
                    \E j \in 1..Len(interests) : IsSubstring(tags[i], interests[j])})

\* sum(1 for t in tags if t in interests)
InterestHits(tags, interests) ==
    Cardinality({i \in 1..Len(tags) : tags[i] \in Range(interests)})

\* len(interests) in place of len(set(interests))
DiversityComponentLen(interests, w) ==
    FMul(FMul(FromInt(Len(interests)), Hundredth), w.diversity)

\* len(set(interests)) * 0.01 * w["diversity"]
DiversityComponent(interests, w) ==
    FMul(FMul(FromInt(Cardinality(Range(interests))), Hundredth), w.diversity)

\* the diversity term left out of the total
TotalNoDiversity(contributions) ==
    PySum(<<contributions.interest_match, contributions.popularity>>)

\* sum(contributions.values()), in insertion order of the dict
Total(contributions) ==
    PySum(<<contributions.interest_match, contributions.popularity,
            contributions.diversity>>)

\* the popularity weight forgotten
ContributionsRawPopularity(session, interest_hits, diversity_component, w) ==
    [interest_match |-> FMul(FromInt(interest_hits), w.interest),
     popularity     |-> Get(session, "popularity", 0),
     diversity      |-> diversity_component]

\* the contributions dict
Contributions(session, interest_hits, diversity_component, w) ==
    [interest_match |-> FMul(FromInt(interest_hits), w.interest),
     popularity     |-> FMul(Get(session, "popularity", 0), w.popularity),
     diversity      |-> diversity_component]

\* the dict score_session returns
Scored(session, contributions) ==
    [session |-> session, score |-> Total(contributions), contributions |-> contributions]

\* the diversity term grown with the number of tags of the session
score_session_tag_diversity(session, interests, w) ==
    Scored(session,
           Contributions(session, InterestHits(LoweredTags(session), interests),
                         FMul(DiversityComponent(interests, w),
                              FromInt(Len(LoweredTags(session)))), w))

score_session(session, interests, w) ==
    Scored(session,
           Contributions(session, InterestHits(LoweredTags(session), interests),
                         DiversityComponent(interests, w), w))

(***************************************************************************)
(* agent.py: conflicts                                                     *)
(***************************************************************************)
Slot(s) == <<Get(s, "start", None), Get(s, "end", None)>>

\* counts the sessions that collide instead of the slots they collide in
CountCollidingSessions(ss) ==
    Cardinality({i \in 1..Len(ss) : \E j \in 1..Len(ss) : j # i /\ Slot(ss[j]) = Slot(ss[i])})

\* only the sessions that carry both fields are counted
_count_conflicts_timed(ss) ==
    LET timed == {i \in 1..Len(ss) : {"start", "end"} \subseteq DOMAIN ss[i]}
        slots == [k \in {Slot(ss[i]) : i \in timed} |->
                    Cardinality({i \in timed : Slot(ss[i]) = k})]
    IN  Cardinality({k \in DOMAIN slots : slots[k] > 1})

_count_conflicts(ss) ==
    LET slots == [k \in {Slot(ss[i]) : i \in 1..Len(ss)} |->
                    Cardinality({i \in 1..Len(ss) : Slot(ss[i]) = k})]
    IN  Cardinality({k \in DOMAIN slots : slots[k] > 1})

(***************************************************************************)
(* sorted(scored, key=score, reverse=True): stable, descending             *)
(***************************************************************************)
\* ascending instead of descending
InsertAsc(out, x) ==
    LET ahead == Cardinality({i \in 1..Len(out) : out[i].score <= x.score})
    IN  SubSeq(out, 1, ahead) \o <<x>> \o SubSeq(out, ahead + 1, Len(out))

\* descending, but x overtakes the elements it ties with
InsertDescUnstable(out, x) ==
    LET ahead == Cardinality({i \in 1..Len(out) : out[i].score > x.score})
    IN  SubSeq(out, 1, ahead) \o <<x>> \o SubSeq(out, ahead + 1, Len(out))

\* x goes behind every element whose score is >= its own
InsertDesc(out, x) ==
    LET ahead == Cardinality({i \in 1..Len(out) : out[i].score >= x.score})
    IN  SubSeq(out, 1, ahead) \o <<x>> \o SubSeq(out, ahead + 1, Len(out))

RECURSIVE SortedDesc(_)
SortedDesc(scored) ==
    IF scored = <<>> THEN <<>>
    ELSE InsertDesc(SortedDesc(SubSeq(scored, 1, Len(scored) - 1)),
                    scored[Len(scored)])

(***************************************************************************)
(* agent.py: recommend                                                     *)
(***************************************************************************)
ScoringEntry(r) ==
    [title |-> r.session.title, score |-> r.score, contributions |-> r.contributions]

\* sorted(scored, key=lambda x: x["score"], reverse=True)[:top_n]
Ranked(ss, interests, w, top_n) ==
    SliceTo(SortedDesc([i \in 1..Len(ss) |-> score_session(ss[i], interests, w)]), top_n)

get_sessions(manifest) == manifest.sessions

\* the dict both recommend functions build from the ranked list
RankedResult(ranked) ==
    [sessions  |-> [i \in 1..Len(ranked) |-> ranked[i].session],
     scoring   |-> [i \in 1..Len(ranked) |-> ScoringEntry(ranked[i])],
     conflicts |-> _count_conflicts([i \in 1..Len(ranked) |-> ranked[i].session])]

\* conflicts counted over the whole candidate pool
recommend_pool_conflicts(manifest, interests, top_n) ==
    [RankedResult(Ranked(get_sessions(manifest), interests, manifest.weights, top_n))
        EXCEPT !.conflicts = _count_conflicts(get_sessions(manifest))]

recommend(manifest, interests, top_n) ==
    RankedResult(Ranked(get_sessions(manifest), interests, manifest.weights, top_n))

(***************************************************************************)
(* agent.py: explain                                                       *)
(***************************************************************************)
\* the title compared as written
FirstMatchExact(ss, title) ==
    {i \in 1..Len(ss) : ss[i].title = title /\ \A j \in 1..(i - 1) : ss[j].title # title}

\* next((s for s in sessions if s["title"].lower() == title.lower()), None):
\* the index of the first match, as a set that is empty when there is none
FirstMatch(ss, title) ==
    {i \in 1..Len(ss) :
        /\ Lower(ss[i].title) = Lower(title)
        /\ \A j \in 1..(i - 1) : Lower(ss[j].title) # Lower(title)}

\* [t for t in session.get("tags", []) if t.lower() in interests]
RECURSIVE MatchedTags(_, _)
MatchedTags(tags, interests) ==
    IF tags = <<>> THEN <<>>
    ELSE IF Lower(Head(tags)) \in Range(interests)
         THEN <<Head(tags)>> \o MatchedTags(Tail(tags), interests)
         ELSE MatchedTags(Tail(tags), interests)

\* the title echoed in lower case
NotFoundLowered(title) == [error |-> "session not found", title |-> Lower(title)]

NotFound(title) == [error |-> "session not found", title |-> title]

\* the dict explain returns for a session and its score_session detail
Explained(session, detail, interests) ==
    [title         |-> session.title,
     score         |-> detail.score,
     contributions |-> detail.contributions,
     matched_tags  |-> MatchedTags(Get(session, "tags", <<>>), interests)]

explain(manifest, title, interests) ==
    IF FirstMatch(get_sessions(manifest), title) = {} THEN NotFound(title)
    ELSE Explained(get_sessions(manifest)[CHOOSE i \in FirstMatch(get_sessions(manifest), title) : TRUE],
                   score_session(get_sessions(manifest)[CHOOSE i \in FirstMatch(get_sessions(manifest), title) : TRUE],
                                 interests, manifest.weights),
                   interests)

(***************************************************************************)
(* core.py: recommend_from_graph                                           *)
(***************************************************************************)
DefaultWeights ==
    [interest |-> FromRatio(2, 1), popularity |-> FromRatio(1, 2),
     diversity |-> FromRatio(3, 10)]

\* [i.lower().strip() for i in interests if i.strip()]
RECURSIVE NormalizedInterests(_)
NormalizedInterests(interests) ==
    IF interests = <<>> THEN <<>>
    ELSE IF Strip(Head(interests)) # <<>>
         THEN <<Strip(Lower(Head(interests)))>> \o NormalizedInterests(Tail(interests))
         ELSE NormalizedInterests(Tail(interests))

\* the weights argument left at its default None
NoWeights == [none |-> TRUE]

\* the fetch made first, the arguments looked at afterwards
GetEventsCallsUnvalidated(interests, top) == <<[top |-> top * 2]>>

\* the calls recommend_from_graph makes on graph_service, in order: none
\* when an argument is refused, else get_events(top=top * 2)
GetEventsCalls(interests, top) ==
    IF interests = <<>> \/ top <= 0 THEN <<>> ELSE <<[top |-> top * 2]>>

\* the weights argument ignored in favour of the defaults
recommend_from_graph_default_weights(events, interests, top, w) ==
    IF interests = <<>>
    THEN [error |-> "ValueError", message |-> "At least one interest is required"]
    ELSE IF top <= 0
    THEN [error |-> "ValueError", message |-> "top must be a positive integer"]
    ELSE IF events = <<>>
    THEN [sessions |-> <<>>, scoring |-> <<>>, conflicts |-> 0, source |-> "graph",
          message |-> "No events found in calendar"]
    ELSE RankedResult(Ranked(events, NormalizedInterests(interests), DefaultWeights, top))
            @@ [source |-> "graph"]

\* events is the list graph_service.get_events(top = top * 2) returns
recommend_from_graph(events, interests, top, w) ==
    IF interests = <<>>
    THEN [error |-> "ValueError", message |-> "At least one interest is required"]
    ELSE IF top <= 0
    THEN [error |-> "ValueError", message |-> "top must be a positive integer"]
    ELSE IF events = <<>>
    THEN [sessions |-> <<>>, scoring |-> <<>>, conflicts |-> 0, source |-> "graph",
          message |-> "No events found in calendar"]
    ELSE RankedResult(Ranked(events, NormalizedInterests(interests),
                             IF w = NoWeights THEN DefaultWeights ELSE w, top))
            @@ [source |-> "graph"]

(***************************************************************************)
(* agents_sdk_adapter.py: EventKitAgent.handle_tool_call                   *)
(***************************************************************************)
\* an exception object: its class and its message, a sequence of texts
Exc(type, message) == [type |-> type, message |-> <<message>>]

\* cls(f"Tool execution failed: {e}")
Failed(cls, e) == [type |-> cls, message |-> <<"Tool execution failed">> \o e.message]

Raised(e) == [raised |-> e]
Returned(v) == [returned |-> v]

\* the class the name InvalidInputError is bound to in the adapter module:
\* errors.InvalidInputError, or Exception when the imports failed
InvalidInputErrorName(imp) == IF imp THEN "InvalidInputError" ELSE "Exception"

\* the class the name EventKitError is bound to in the adapter module
EventKitErrorName(imp) == IF imp THEN "EventKitError" ELSE "Exception"

\* isinstance(e, cls) for the classes that occur
IsInstance(type, cls) ==
    \/ cls = type
    \/ cls = "Exception"
    \/ cls = "EventKitError" /\ type = "InvalidInputError"

\* interests.split(",")
RECURSIVE SplitComma(_)
SplitComma(s) ==
    IF \A k \in 1..Len(s) : s[k] # ","
    THEN <<s>>
    ELSE <<SubSeq(s, 1, (CHOOSE k \in 1..Len(s) :
                            s[k] = "," /\ \A j \in 1..(k - 1) : s[j] # ",") - 1)>>
         \o SplitComma(SubSeq(s, (CHOOSE k \in 1..Len(s) :
                            s[k] = "," /\ \A j \in 1..(k - 1) : s[j] # ",") + 1, Len(s)))

\* [i.strip() for i in parts if i.strip()]
RECURSIVE StrippedNonBlank(_)
StrippedNonBlank(parts) ==
    IF parts = <<>> THEN <<>>
    ELSE IF Strip(Head(parts)) # <<>>
         THEN <<Strip(Head(parts))>> \o StrippedNonBlank(Tail(parts))
         ELSE StrippedNonBlank(Tail(parts))

interests_list(interests) == StrippedNonBlank(SplitComma(interests))

tool_handlers == {"recommend_sessions", "explain_session", "export_itinerary"}

\* the call into the engine: env.engine_error is the exception the engine
\* function raises, None when it returns
EngineCall(value, env) ==
    IF env.engine_error # None THEN Raised(Exc(env.engine_error, "Test error"))
    ELSE Returned(value)

_handle_recommend(manifest, parameters, imp, env) ==
    IF Get(parameters, "interests", <<>>) = <<>>
    THEN Raised(Exc(InvalidInputErrorName(imp), "'interests' parameter is required"))
    ELSE IF interests_list(parameters.interests) = <<>>
    THEN Raised(Exc(InvalidInputErrorName(imp), "At least one interest is required"))
    ELSE IF Get(parameters, "use_graph", FALSE) /\ ~imp
    THEN Raised(Exc("AttributeError", "'NoneType' object has no attribute 'graph_enabled'"))
    ELSE IF Get(parameters, "use_graph", FALSE) /\ env.graph_enabled
    THEN Raised(Exc("TypeError", "recommend_from_graph() got an unexpected keyword argument"))
    ELSE IF ~imp
    THEN Raised(Exc(EventKitErrorName(imp), "Recommend function not available"))
    ELSE EngineCall(Len(recommend(manifest, interests_list(parameters.interests),
                                  Get(parameters, "top", 5)).sessions), env)

_handle_explain(manifest, parameters, imp, env) ==
    IF Get(parameters, "session_title", <<>>) = <<>>
    THEN Raised(Exc(InvalidInputErrorName(imp), "'session_title' parameter is required"))
    ELSE IF Get(parameters, "interests", <<>>) = <<>>
    THEN Raised(Exc(InvalidInputErrorName(imp), "'interests' parameter is required"))
    ELSE IF ~imp
    THEN Raised(Exc(EventKitErrorName(imp), "Explain function not available"))
    ELSE EngineCall(DOMAIN explain(manifest, parameters.session_title,
                                   interests_list(parameters.interests)), env)

_handle_export(manifest, parameters, imp, env) ==
    IF Get(parameters, "interests", <<>>) = <<>>
    THEN Raised(Exc(InvalidInputErrorName(imp), "'interests' parameter is required"))
    ELSE IF ~imp
    THEN Raised(Exc(EventKitErrorName(imp), "Recommend function not available"))
    ELSE EngineCall(Len(recommend(manifest, interests_list(parameters.interests), 10).sessions),
                    env)

\* result = handler(parameters), then the telemetry record when there is a
\* correlation id
Executed(manifest, tool_name, parameters, imp, env) ==
    LET out == CASE tool_name = "recommend_sessions" ->
                        _handle_recommend(manifest, parameters, imp, env)
                 [] tool_name = "explain_session" ->
                        _handle_explain(manifest, parameters, imp, env)
                 [] tool_name = "export_itinerary" ->
                        _handle_export(manifest, parameters, imp, env)
    IN  IF /\ "returned" \in DOMAIN out
           /\ "correlation_id" \in DOMAIN parameters
           /\ env.telemetry_error # None
        THEN Raised(Exc(env.telemetry_error, "telemetry"))
        ELSE out

\* every exception wrapped, InvalidInputError included
handle_tool_call_wrap_all(manifest, tool_name, parameters, imp, env) ==
    IF tool_name \notin tool_handlers
    THEN Raised(Exc(InvalidInputErrorName(imp), "Unknown tool"))
    ELSE IF "raised" \in DOMAIN Executed(manifest, tool_name, parameters, imp, env)
    THEN Raised(Failed(EventKitErrorName(imp),
                       Executed(manifest, tool_name, parameters, imp, env).raised))
    ELSE Executed(manifest, tool_name, parameters, imp, env)

handle_tool_call(manifest, tool_name, parameters, imp, env) ==
    IF tool_name \notin tool_handlers
    THEN Raised(Exc(InvalidInputErrorName(imp), "Unknown tool"))
    ELSE IF "raised" \notin DOMAIN Executed(manifest, tool_name, parameters, imp, env)
    THEN Executed(manifest, tool_name, parameters, imp, env)
    ELSE IF IsInstance(Executed(manifest, tool_name, parameters, imp, env).raised.type,
                       EventKitErrorName(imp))
    THEN Executed(manifest, tool_name, parameters, imp, env)
    ELSE Raised(Failed(EventKitErrorName(imp),
                       Executed(manifest, tool_name, parameters, imp, env).raised))

(***************************************************************************)
(* graph_service.py: GraphEventService                                     *)
(* A datetime is a number of seconds; an optional argument is <<>> for     *)
(* None and <<v>> for a value.                                             *)
(***************************************************************************)
\* seconds in a day, on the scale of the model's clock
DayLength == 10

DefaultRetryAfter == 60

MaxApiTop == 999

\* no token asked for, no request sent
NoTraffic == [tokens |-> 0, requests |-> <<>>, answers |-> <<>>]

\* datetime.date()
DateOf(t) == t \div DayLength

\* f"{start_time.date()}_{end_time.date()}_{top}"
_make_cache_key(start_time, end_time, top) == <<DateOf(start_time), DateOf(end_time), top>>

\* expired one second early
_is_cache_valid_early(svc, cache_key, t) ==
    /\ cache_key \in DOMAIN svc._cache
    /\ t - svc._cache_time < svc.cache_ttl - 1

_is_cache_valid(svc, cache_key, t) ==
    /\ cache_key \in DOMAIN svc._cache
    /\ t - svc._cache_time < svc.cache_ttl

\* the sessions made of the events that are not cancelled
RECURSIVE _transform_events(_)
_transform_events(events) ==
    IF events = <<>> THEN <<>>
    ELSE IF Get(Head(events), "isCancelled", FALSE)
         THEN _transform_events(Tail(events))
         ELSE <<[title |-> Get(Head(events), "subject", "Untitled Event")]>>
              \o _transform_events(Tail(events))

\* d[k] = v on a dict
Put(d, k, v) == [x \in DOMAIN d \cup {k} |-> IF x = k THEN v ELSE d[x]]

StartOf(t, start_time) == IF start_time = <<>> THEN t ELSE start_time[1]

EndOf(t, start_time, end_time) ==
    IF end_time = <<>> THEN StartOf(t, start_time) + 7 * DayLength ELSE end_time[1]

KeyOf(t, start_time, end_time, top) ==
    _make_cache_key(StartOf(t, start_time), EndOf(t, start_time, end_time), top)

\* the GET sent to the calendar view endpoint
Request(t, start_time, end_time, top) ==
    [startDateTime |-> StartOf(t, start_time),
     endDateTime   |-> EndOf(t, start_time, end_time),
     top           |-> Min(top, MaxApiTop)]

\* the status line and the Retry-After header of a response
Answer(api) ==
    IF api.status = 429 THEN [status |-> 429, retry_after |-> api.retry_after]
    ELSE [status |-> api.status]

GraphServiceError(message) == Raised(Exc("GraphServiceError", message))

\* _fetch_events_from_api and the rest of the try block of get_events; api
\* is what the token provider and the Graph API answer
Fetched(svc, t, start_time, end_time, top, api) ==
    IF api.kind = "token_error"
    THEN [outcome |-> GraphServiceError("Authentication failed"),
          service |-> svc,
          traffic |-> [tokens |-> 1, requests |-> <<>>, answers |-> <<>>]]
    ELSE IF api.kind = "network_error"
    THEN [outcome |-> GraphServiceError("Network error"),
          service |-> svc,
          traffic |-> [tokens |-> 1, requests |-> <<Request(t, start_time, end_time, top)>>,
                       answers |-> <<>>]]
    ELSE IF api.status = 429
    THEN [outcome |-> GraphServiceError("Rate limited"),
          service |-> [svc EXCEPT !._rate_limit_retry_after =
                          t + (IF api.retry_after = <<>> THEN DefaultRetryAfter
                               ELSE api.retry_after[1])],
          traffic |-> [tokens |-> 1, requests |-> <<Request(t, start_time, end_time, top)>>,
                       answers |-> <<Answer(api)>>]]
    ELSE IF api.status = 401
    THEN [outcome |-> GraphServiceError("Authentication failed: Invalid token"),
          service |-> svc,
          traffic |-> [tokens |-> 1, requests |-> <<Request(t, start_time, end_time, top)>>,
                       answers |-> <<Answer(api)>>]]
    ELSE IF api.status # 200
    THEN [outcome |-> GraphServiceError("Graph API returned an error status"),
          service |-> svc,
          traffic |-> [tokens |-> 1, requests |-> <<Request(t, start_time, end_time, top)>>,
                       answers |-> <<Answer(api)>>]]
    ELSE [outcome |-> Returned(_transform_events(api.value)),
          service |-> [svc EXCEPT
                          !._cache = Put(svc._cache, KeyOf(t, start_time, end_time, top),
                                         _transform_events(api.value)),
                          !._cache_time = t],
          traffic |-> [tokens |-> 1, requests |-> <<Request(t, start_time, end_time, top)>>,
                       answers |-> <<Answer(api)>>]]

\* the backoff left unchecked
get_events_no_backoff(svc, t, start_time, end_time, top, api) ==
    IF _is_cache_valid(svc, KeyOf(t, start_time, end_time, top), t)
    THEN [outcome |-> Returned(svc._cache[KeyOf(t, start_time, end_time, top)]),
          service |-> svc, traffic |-> NoTraffic]
    ELSE Fetched(svc, t, start_time, end_time, top, api)

\* a failed call empties the cache
get_events_evicting(svc, t, start_time, end_time, top, api) ==
    LET done == IF svc._rate_limit_retry_after > t
                THEN [outcome |-> GraphServiceError("Rate limit exceeded"),
                      service |-> svc, traffic |-> NoTraffic]
                ELSE IF _is_cache_valid(svc, KeyOf(t, start_time, end_time, top), t)
                THEN [outcome |-> Returned(svc._cache[KeyOf(t, start_time, end_time, top)]),
                      service |-> svc, traffic |-> NoTraffic]
                ELSE Fetched(svc, t, start_time, end_time, top, api)
    IN  IF "raised" \in DOMAIN done.outcome
        THEN [done EXCEPT !.service = [@ EXCEPT !._cache = <<>>, !._cache_time = 0]]
        ELSE done

\* get_events at time t: what it returns or raises, the service afterwards
\* and the traffic it caused
get_events(svc, t, start_time, end_time, top, api) ==
    IF svc._rate_limit_retry_after > t
    THEN [outcome |-> GraphServiceError("Rate limit exceeded"),
          service |-> svc, traffic |-> NoTraffic]
    ELSE IF _is_cache_valid(svc, KeyOf(t, start_time, end_time, top), t)
    THEN [outcome |-> Returned(svc._cache[KeyOf(t, start_time, end_time, top)]),
          service |-> svc, traffic |-> NoTraffic]
    ELSE Fetched(svc, t, start_time, end_time, top, api)

clear_cache(svc) == [svc EXCEPT !._cache = <<>>, !._cache_time = 0]

(***************************************************************************)
(* Inputs                                                                  *)
(***************************************************************************)
SeqsUpTo(S, n) == UNION {[1..k -> S] : k \in 0..n}

ai == <<"a", "i">>
ml == <<"m", "l">>

Titles == <<<<"S", "1">>, <<"S", "2">>, <<"S", "3">>, <<"S", "4">>, <<"S", "5">>>>

\* sessions of the ranking specification: every key present
RankTags == {<<>>, <<<<"A", "I">>>>}
RankPops == {FromRatio(1, 4), FromRatio(3, 4)}
RankEnds == {"10:00", "11:00"}

RankSession(i) ==
    {[title |-> Titles[i], tags |-> t, popularity |-> p, start |-> "09:00", end |-> e] :
        t \in RankTags, p \in RankPops, e \in RankEnds}

RankPools ==
    UNION {{pool \in [1..k -> UNION {RankSession(i) : i \in 1..k}] :
                \A i \in 1..k : pool[i].title = Titles[i]} : k \in 0..MaxSessions}

WeightConfigs ==
    {DefaultWeights,
     [interest |-> FromRatio(1, 2), popularity |-> FromRatio(1, 1),
      diversity |-> FromRatio(3, 10)],
     [interest |-> FromRatio(1, 1), popularity |-> 0, diversity |-> FromRatio(1, 1)]}

RankInterests == SeqsUpTo({ai, ml}, MaxInterests)

\* raw interests as handed to recommend_from_graph
GraphInterests == SeqsUpTo({<<" ", "A", "I">>, <<" ">>}, MaxGraphInterests)

TopNs == (0 - 1)..MaxTop

\* sessions of the scoring specification: optional tags and popularity
aid == <<"a", "i", "d">>

ScoreWords == {ai, <<"A", "I">>, <<"a">>, aid}

ScoreSessions ==
    {[title |-> Titles[1], tags |-> t, popularity |-> p] :
        t \in SeqsUpTo(ScoreWords, MaxTags), p \in RankPops}
    \cup {[title |-> Titles[1], tags |-> t] : t \in SeqsUpTo(ScoreWords, MaxTags)}
    \cup {[title |-> Titles[1], popularity |-> p] : p \in RankPops}
    \cup {[title |-> Titles[1]]}

ScoreInterests == SeqsUpTo(ScoreWords, MaxInterests)

\* sessions of the conflict specification: optional start and end
Starts == {"09:00", "10:00"}
Ends == {"10:00", "11:00"}

SlotSession(i) ==
    {[title |-> Titles[i], start |-> st, end |-> en] : st \in Starts, en \in Ends}
    \cup {[title |-> Titles[i], start |-> st] : st \in Starts}
    \cup {[title |-> Titles[i], end |-> en] : en \in Ends}
    \cup {[title |-> Titles[i]]}

SlotPools ==
    UNION {{pool \in [1..k -> UNION {SlotSession(i) : i \in 1..k}] :
                \A i \in 1..k : pool[i].title = Titles[i]} : k \in 0..MaxSlotSessions}

(***************************************************************************)
(* GraphAuthClient (src/graph_auth.py).  A token response is the dict MSAL *)
(* answers with; its access_token is written as the claims it carries,     *)
(* the time it was issued at and the time it expires at.  The cache file   *)
(* is the text last written to ~/.event_agent_token_cache.json.            *)
(***************************************************************************)
BufferSeconds == 300

NoClient == [none |-> TRUE]
NoFile == [none |-> TRUE]

TokenResponse(t, expires_in) ==
    [access_token |-> [iat |-> t, exp |-> t + expires_in], expires_in |-> expires_in]

_is_token_valid(client, t) ==
    IF DOMAIN client._token_cache = {} THEN FALSE
    ELSE LET expires_in == Get(client._token_cache, "expires_in", 0)
             elapsed == t - client._last_token_time
         IN  elapsed < expires_in - BufferSeconds

_load_token_cache(client, file, t) ==
    IF file = NoFile THEN client
    ELSE [client EXCEPT !._token_cache = file.text, !._last_token_time = t]

GraphAuthClient(file, t) ==
    _load_token_cache([_token_cache |-> <<>>, _last_token_time |-> 0], file, t)

_save_token_cache(client, file, disk_ok) ==
    IF disk_ok THEN [text |-> client._token_cache] ELSE file

GraphAuthError(message) == Raised(Exc("GraphAuthError", message))

\* msal is what the MSAL application answers when it is asked; the outcome,
\* the client and the cache file after the call, and the calls made to MSAL
get_access_token(client, file, t, msal, disk_ok) ==
    IF DOMAIN client._token_cache # {} /\ _is_token_valid(client, t)
    THEN [outcome |-> Returned(Get(client._token_cache, "access_token", "")),
          auth |-> client, cache_file |-> file, msal_calls |-> 0]
    ELSE IF msal.kind = "token"
    THEN LET acquired == [client EXCEPT !._token_cache = msal.value,
                                        !._last_token_time = t]
         IN  [outcome |-> Returned(Get(msal.value, "access_token", "")),
              auth |-> acquired,
              cache_file |-> _save_token_cache(acquired, file, disk_ok),
              msal_calls |-> 1]
    ELSE [outcome |-> GraphAuthError("Token acquisition exception"),
          auth |-> client, cache_file |-> file, msal_calls |-> 1]

(***************************************************************************)
(* agent.py: RateLimiter.  request_log is a dict from an IP to the list of *)
(* the times logged for it.                                                *)
(***************************************************************************)
RateLimiter(requests_per_minute, window_seconds) ==
    [requests_per_minute |-> requests_per_minute,
     window_seconds |-> window_seconds,
     request_log |-> <<>>]

\* [ts for ts in log if now - ts < window_seconds]
RECURSIVE Recent(_, _, _)
Recent(log, t, window_seconds) ==
    IF log = <<>> THEN <<>>
    ELSE (IF t - Head(log) < window_seconds THEN <<Head(log)>> ELSE <<>>)
         \o Recent(Tail(log), t, window_seconds)

\* the log never pruned
is_allowed_unpruned(lim, ip, t) ==
    LET log == Get(lim.request_log, ip, <<>>)
    IN  IF Len(log) < lim.requests_per_minute
        THEN [returned |-> TRUE,
              limiter |-> [lim EXCEPT !.request_log = Put(@, ip, Append(log, t))]]
        ELSE [returned |-> FALSE,
              limiter |-> [lim EXCEPT !.request_log = Put(@, ip, log)]]

is_allowed(lim, ip, t) ==
    LET log == Recent(Get(lim.request_log, ip, <<>>), t, lim.window_seconds)
    IN  IF Len(log) < lim.requests_per_minute
        THEN [returned |-> TRUE,
              limiter |-> [lim EXCEPT !.request_log = Put(@, ip, Append(log, t))]]
        ELSE [returned |-> FALSE,
              limiter |-> [lim EXCEPT !.request_log = Put(@, ip, log)]]

cleanup_old_entries(lim, t) ==
    LET kept == {ip \in DOMAIN lim.request_log :
                    \E i \in 1..Len(lim.request_log[ip]) :
                        t - lim.request_log[ip][i] < lim.window_seconds}
    IN  [lim EXCEPT !.request_log = [ip \in kept |-> lim.request_log[ip]]]

(***************************************************************************)
(* bot_handler.py: EventKitBotHandler._parse_message                       *)
(***************************************************************************)
\* the first word of a text that does not start with a space ends here
WordEnd(t) ==
    IF \E i \in 1..Len(t) : IsSpace(t[i])
    THEN (CHOOSE i \in 1..Len(t) : IsSpace(t[i]) /\ \A j \in 1..(i - 1) : ~IsSpace(t[j])) - 1
    ELSE Len(t)

\* str.split(): the words between runs of whitespace
RECURSIVE Split(_)
Split(s) ==
    LET t == LStrip(s)
    IN  IF t = <<>> THEN <<>>
        ELSE <<SubSeq(t, 1, WordEnd(t))>> \o Split(SubSeq(t, WordEnd(t) + 1, Len(t)))

\* " ".join(parts)
RECURSIVE Join(_)
Join(parts) ==
    IF parts = <<>> THEN <<>>
    ELSE IF Len(parts) = 1 THEN parts[1]
    ELSE parts[1] \o <<" ">> \o Join(Tail(parts))

\* word.startswith("--")
StartsWithDashes(w) == Len(w) >= 2 /\ w[1] = "-" /\ w[2] = "-"

str_help == <<"h", "e", "l", "p">>
str_true == <<"t", "r", "u", "e">>
str_interests == <<"i", "n", "t", "e", "r", "e", "s", "t", "s">>

\* the while loop of _parse_message from index i on (parts[i - 1] in Python)
RECURSIVE ParseParameters(_, _, _)
ParseParameters(parts, i, params) ==
    IF i > Len(parts) THEN params
    ELSE IF StartsWithDashes(parts[i])
    THEN LET key == SubSeq(parts[i], 3, Len(parts[i]))
         IN  IF i + 1 <= Len(parts) /\ ~StartsWithDashes(parts[i + 1])
             THEN ParseParameters(parts, i + 2, Put(params, key, parts[i + 1]))
             ELSE ParseParameters(parts, i + 1, Put(params, key, str_true))
    ELSE IF str_interests \notin DOMAIN params
    THEN Put(params, str_interests, Join(SubSeq(parts, i, Len(parts))))
    ELSE ParseParameters(parts, i + 1, params)

_parse_message(message) ==
    LET parts == Split(message)
    IN  IF parts = <<>> THEN [command |-> str_help, params |-> <<>>]
        ELSE [command |-> Lower(parts[1]), params |-> ParseParameters(parts, 2, <<>>)]

(***************************************************************************)
(* agent.py: the HTTP server, Handler.do_GET.  A request is its path, its  *)
(* Authorization header (<<>> when absent) and its query parameters; env   *)
(* is the environment the server runs in.  What is sent is the status      *)
(* code, the payload, and the calls the handler made on the way.           *)
(***************************************************************************)
\* raw.replace(";", ",")
ReplaceSemicolons(raw) == [i \in 1..Len(raw) |-> IF raw[i] = ";" THEN "," ELSE raw[i]]

_normalize_interests(raw) == StrippedNonBlank(SplitComma(Lower(ReplaceSemicolons(raw))))

\* load_profile(storage_file, key): the stored list in lower case
load_profile(profiles, key) ==
    IF key \in DOMAIN profiles
    THEN [i \in 1..Len(profiles[key]) |-> Lower(profiles[key][i])]
    ELSE <<>>

str_bearer == <<"B", "e", "a", "r", "e", "r", " ">>

Sent(code, payload, effects) == [code |-> code, payload |-> payload, effects |-> effects]

\* bool(os.getenv("API_TOKEN"))
token_required(env) == env.API_TOKEN # <<>> /\ env.API_TOKEN[1] # <<>>

\* self.headers.get("Authorization", "")
auth_header(request) ==
    IF request.authorization = <<>> THEN <<>> ELSE request.authorization[1]

\* the interests of a request and the calls made to find them
LoadsProfile(request, env) == request.profileLoad # <<>> /\ env.storage_file

ProfileInterests(request, env) ==
    IF LoadsProfile(request, env) THEN load_profile(env.profiles, request.profileLoad[1])
    ELSE <<>>

RequestInterests(request, env) ==
    IF ProfileInterests(request, env) = <<>> /\ request.interests # <<>>
    THEN _normalize_interests(request.interests)
    ELSE ProfileInterests(request, env)

Loaded(request, env) == IF LoadsProfile(request, env) THEN <<"load_profile">> ELSE <<>>

get_recommend(manifest, request, env) ==
    IF RequestInterests(request, env) = <<>>
    THEN Sent(400, [error |-> "no interests provided"], Loaded(request, env))
    ELSE Sent(200, recommend(manifest, RequestInterests(request, env), env.max_sessions_default),
              Loaded(request, env) \o <<"recommend">>)

get_explain(manifest, request, env) ==
    IF request.session = <<>>
    THEN Sent(400, [error |-> "session required"], Loaded(request, env))
    ELSE Sent(200, explain(manifest, request.session, RequestInterests(request, env)),
              Loaded(request, env) \o <<"explain">>)

get_recommend_graph(manifest, request, env) ==
    IF env.graph = "unavailable"
    THEN Sent(503, [error |-> "Graph API support not available"], <<>>)
    ELSE IF _normalize_interests(request.interests) = <<>>
    THEN Sent(400, [error |-> "no interests provided"], <<>>)
    ELSE IF env.graph = "not_configured"
    THEN Sent(502, [error |-> "Graph credentials not configured"], <<>>)
    ELSE IF env.graph = "error"
    THEN Sent(502, [error |-> "Graph API error"], <<"recommend_from_graph">>)
    ELSE LET ranked == recommend_from_graph(get_sessions(manifest),
                                            _normalize_interests(request.interests),
                                            env.max_sessions_default, NoWeights)
         IN  IF "error" \in DOMAIN ranked
             THEN Sent(400, [error |-> ranked.message], <<"recommend_from_graph">>)
             ELSE Sent(200, ranked, <<"recommend_from_graph">>)

get_export(manifest, request, env) ==
    IF RequestInterests(request, env) = <<>>
    THEN Sent(400, [error |-> "no interests provided"], Loaded(request, env))
    ELSE LET rec == recommend(manifest, RequestInterests(request, env),
                              env.max_sessions_default)
         IN  IF env.export_enabled
             THEN Sent(200, [sessionCount |-> Len(rec.sessions), saved |-> TRUE],
                       Loaded(request, env) \o <<"recommend", "write_text">>)
             ELSE Sent(200, [sessionCount |-> Len(rec.sessions)],
                       Loaded(request, env) \o <<"recommend">>)

Routed(manifest, request, env) ==
    IF request.path = "/health" THEN Sent(200, [status |-> "ok"], <<>>)
    ELSE IF request.path = "/recommend" THEN get_recommend(manifest, request, env)
    ELSE IF request.path = "/explain" THEN get_explain(manifest, request, env)
    ELSE IF request.path = "/recommend-graph" THEN get_recommend_graph(manifest, request, env)
    ELSE IF request.path = "/export" THEN get_export(manifest, request, env)
    ELSE Sent(404, [error |-> "not found"], <<>>)

\* /health answered before the token is looked at
do_GET_health_first(manifest, request, env) ==
    IF request.path = "/health" THEN Sent(200, [status |-> "ok"], <<>>)
    ELSE IF token_required(env) /\ auth_header(request) # str_bearer \o env.API_TOKEN[1]
    THEN Sent(401, [error |-> "unauthorized"], <<>>)
    ELSE Routed(manifest, request, env)

do_GET(manifest, request, env) ==
    IF token_required(env) /\ auth_header(request) # str_bearer \o env.API_TOKEN[1]
    THEN Sent(401, [error |-> "unauthorized"], <<>>)
    ELSE Routed(manifest, request, env)

(***************************************************************************)
(* State machine: a loaded manifest and the last engine call               *)
(***************************************************************************)
manifest == [sessions |-> sessions, weights |-> weights]

NoCall == [op |-> "none"]
NoResult == [none |-> TRUE]

\* no caller besides the synchronous one
NoThreads == <<>>

\* no GraphEventService has been constructed
NoService == [none |-> TRUE]

NoGraphService ==
    /\ service = NoService
    /\ now = 0
    /\ graph_api = NoTraffic
    /\ history = <<>>

\* no RateLimiter has been constructed
NoLimiter == [none |-> TRUE]

\* no GraphAuthClient and no RateLimiter, and no token cache file
NoAccess ==
    /\ auth = NoClient
    /\ cache_file = NoFile
    /\ limiter = NoLimiter

Init ==
    /\ sessions \in RankPools
    /\ weights \in WeightConfigs
    /\ call = NoCall
    /\ result = NoResult
    /\ threads = NoThreads
    /\ get_events_calls = <<>>
    /\ NoGraphService
    /\ imported = TRUE
    /\ NoAccess

\* a caller invokes the engine; calls are synchronous
Recommend ==
    \E interests \in RankInterests, top_n \in TopNs :
        /\ call = NoCall
        /\ call' = [op |-> "recommend", interests |-> interests, top_n |-> top_n]
        /\ result' = recommend(manifest, interests, top_n)
        /\ UNCHANGED <<sessions, weights, threads, get_events_calls, serviceVars, imported, accessVars>>

RecommendFromGraph ==
    \E interests \in GraphInterests, top \in TopNs, w \in {NoWeights, weights} :
        /\ call = NoCall
        /\ call' = [op |-> "recommend_from_graph", interests |-> interests, top_n |-> top,
                    weights |-> w]
        /\ result' = recommend_from_graph(sessions, interests, top, w)
        /\ get_events_calls' = GetEventsCalls(interests, top)
        /\ UNCHANGED <<sessions, weights, threads, serviceVars, imported, accessVars>>

\* the caller has rendered the result; nothing of the call is kept
Return ==
    /\ call # NoCall
    /\ call' = NoCall
    /\ result' = NoResult
    /\ get_events_calls' = <<>>
    /\ UNCHANGED <<sessions, weights, threads, serviceVars, imported, accessVars>>

Next == Recommend \/ RecommendFromGraph \/ Return

Spec == Init /\ [][Next]_vars

(***************************************************************************)
(* score_session on its own                                                *)
(***************************************************************************)
InitScore ==
    /\ sessions \in {<<s>> : s \in ScoreSessions}
    /\ weights \in WeightConfigs
    /\ call = NoCall
    /\ result = NoResult
    /\ threads = NoThreads
    /\ get_events_calls = <<>>
    /\ NoGraphService
    /\ imported = TRUE
    /\ NoAccess

ScoreSession ==
    \E i \in 1..Len(sessions), interests \in ScoreInterests :
        /\ call = NoCall
        /\ call' = [op |-> "score_session", index |-> i, interests |-> interests]
        /\ result' = score_session(sessions[i], interests, weights)
        /\ UNCHANGED <<sessions, weights, threads, get_events_calls, serviceVars, imported, accessVars>>

NextScore == ScoreSession \/ Return

SpecScore == InitScore /\ [][NextScore]_vars

(***************************************************************************)
(* _count_conflicts on its own                                             *)
(***************************************************************************)
InitConflicts ==
    /\ sessions \in SlotPools
    /\ weights = DefaultWeights
    /\ call = NoCall
    /\ result = NoResult
    /\ threads = NoThreads
    /\ get_events_calls = <<>>
    /\ NoGraphService
    /\ imported = TRUE
    /\ NoAccess

CountConflicts ==
    /\ call = NoCall
    /\ call' = [op |-> "count_conflicts"]
    /\ result' = [conflicts |-> _count_conflicts(sessions)]
    /\ UNCHANGED <<sessions, weights, threads, get_events_calls, serviceVars, imported, accessVars>>

NextConflicts == CountConflicts \/ Return

SpecConflicts == InitConflicts /\ [][NextConflicts]_vars

(***************************************************************************)
(* explain on its own                                                      *)
(***************************************************************************)
\* titles that differ in letter case only, and one that differs otherwise
ExplainTitles == {<<"A", "I">>, <<"a", "i">>, <<"M", "L">>}

ExplainTags == {<<>>, <<<<"A", "I">>>>, <<ai, aid>>}

ExplainSessions ==
    {[title |-> t, tags |-> g, popularity |-> FromRatio(3, 4)] :
        t \in ExplainTitles, g \in ExplainTags}

ExplainPools == SeqsUpTo(ExplainSessions, MaxSessions)

\* titles asked for: other letter case, exact, and one no session carries
AskedTitles == {<<"a", "I">>, <<"M", "L">>, <<"m", "l">>, <<"D">>}

ExplainInterests == SeqsUpTo({ai, <<"A", "I">>}, MaxInterests)

InitExplain ==
    /\ sessions \in ExplainPools
    /\ weights \in WeightConfigs
    /\ call = NoCall
    /\ result = NoResult
    /\ threads = NoThreads
    /\ get_events_calls = <<>>
    /\ NoGraphService
    /\ imported = TRUE
    /\ NoAccess

Explain ==
    \E title \in AskedTitles, interests \in ExplainInterests :
        /\ call = NoCall
        /\ call' = [op |-> "explain", title |-> title, interests |-> interests]
        /\ result' = explain(manifest, title, interests)
        /\ UNCHANGED <<sessions, weights, threads, get_events_calls, serviceVars, imported, accessVars>>

NextExplain == Explain \/ Return

SpecExplain == InitExplain /\ [][NextExplain]_vars

(***************************************************************************)
(* recommend_from_graph on its own: the service is a stub that returns     *)
(* sessions and records the calls made on it                               *)
(***************************************************************************)
CalendarEvent(i) ==
    {[title |-> Titles[i], tags |-> <<>>, popularity |-> FromRatio(3, 4),
      start |-> "09:00", end |-> "10:00"],
     [title |-> Titles[i], tags |-> <<<<"A", "I">>>>, popularity |-> FromRatio(1, 4),
      start |-> "09:00", end |-> "10:00"]}

CalendarPools ==
    UNION {{pool \in [1..k -> UNION {CalendarEvent(i) : i \in 1..k}] :
                \A i \in 1..k : pool[i].title = Titles[i]} : k \in 0..(MaxSessions + 1)}

\* interests as a caller may hand them over: normalized, empty, or raw
CalendarInterests == SeqsUpTo({ai, <<>>, <<" ", "A", "I">>}, MaxInterests)

InitGraph ==
    /\ sessions \in CalendarPools
    /\ weights \in WeightConfigs
    /\ call = NoCall
    /\ result = NoResult
    /\ threads = NoThreads
    /\ get_events_calls = <<>>
    /\ NoGraphService
    /\ imported = TRUE
    /\ NoAccess

RecommendFromCalendar ==
    \E interests \in CalendarInterests, top \in TopNs, w \in {NoWeights, weights} :
        /\ call = NoCall
        /\ call' = [op |-> "recommend_from_graph", interests |-> interests, top_n |-> top,
                    weights |-> w]
        /\ result' = recommend_from_graph(sessions, interests, top, w)
        /\ get_events_calls' = GetEventsCalls(interests, top)
        /\ UNCHANGED <<sessions, weights, threads, serviceVars, imported, accessVars>>

NextGraph == RecommendFromCalendar \/ Return

SpecGraph == InitGraph /\ [][NextGraph]_vars

(***************************************************************************)
(* Several callers inside the engine at once.  A call is a frame of local  *)
(* names; sessions and weights are the objects every caller passes in.     *)
(***************************************************************************)
Callers == 1..MaxCallers

Idle == [pc |-> "idle"]

\* a pool whose order depends on the interests, with and without a conflict
ConcurrentPools ==
    {<<[title |-> Titles[1], tags |-> <<>>, popularity |-> FromRatio(3, 4),
        start |-> "09:00", end |-> "10:00"],
       [title |-> Titles[2], tags |-> <<<<"A", "I">>>>, popularity |-> FromRatio(1, 4),
        start |-> "09:00", end |-> e]>> : e \in RankEnds}

ConcurrentInterests == {<<>>, <<ml, ai>>}

Invocations ==
    {[pc |-> "called", op |-> "recommend", interests |-> i, top_n |-> t] :
        i \in ConcurrentInterests, t \in 1..2}
    \cup {[pc |-> "called", op |-> "explain", title |-> t, interests |-> i] :
        t \in {<<"s", "2">>, <<"D">>}, i \in ConcurrentInterests}
    \cup {[pc |-> "called", op |-> "score_session", index |-> k, interests |-> i] :
        k \in 1..2, i \in ConcurrentInterests}
    \cup {[pc |-> "called", op |-> "count_conflicts"]}

InitConcurrent ==
    /\ sessions \in ConcurrentPools
    /\ weights = DefaultWeights
    /\ call = NoCall
    /\ result = NoResult
    /\ threads = [c \in Callers |-> Idle]
    /\ get_events_calls = <<>>
    /\ NoGraphService
    /\ imported = TRUE
    /\ NoAccess

Invoke(c) ==
    \E frame \in Invocations :
        /\ threads[c] = Idle
        /\ threads' = [threads EXCEPT ![c] = frame]
        /\ UNCHANGED <<sessions, weights, call, result, get_events_calls, serviceVars, imported, accessVars>>

\* scored = [score_session(s, interests, w) for s in sessions]
ScoreStep(c) ==
    /\ threads[c].pc = "called"
    /\ threads[c].op = "recommend"
    /\ threads' = [threads EXCEPT ![c] =
          [pc |-> "scored", op |-> "recommend", interests |-> threads[c].interests,
           top_n |-> threads[c].top_n,
           scored |-> [i \in 1..Len(sessions) |->
                          score_session(sessions[i], threads[c].interests, weights)]]]
    /\ UNCHANGED <<sessions, weights, call, result, get_events_calls, serviceVars, imported, accessVars>>

\* a scored list kept in one place for all callers: the first caller's
ScoredOfFirst(c) ==
    threads[CHOOSE d \in Callers :
                /\ "scored" \in DOMAIN threads[d]
                /\ \A e \in Callers : "scored" \in DOMAIN threads[e] => d <= e].scored

\* the local name scored of caller c
ScoredOf(c) == threads[c].scored

\* sessions.sort(...) on the caller's list in place of sorted(scored, ...)
RankStepInPlace(c) ==
    /\ threads[c].pc = "scored"
    /\ threads' = [threads EXCEPT ![c] =
          [pc |-> "ranked", op |-> "recommend", interests |-> threads[c].interests,
           top_n |-> threads[c].top_n,
           ranked |-> SliceTo(SortedDesc(ScoredOf(c)), threads[c].top_n)]]
    /\ sessions' = [i \in 1..Len(sessions) |-> SortedDesc(ScoredOf(c))[i].session]
    /\ UNCHANGED <<weights, call, result, get_events_calls, serviceVars, imported, accessVars>>

\* ranked = sorted(scored, key=..., reverse=True)[:top_n]
RankStep(c) ==
    /\ threads[c].pc = "scored"
    /\ threads' = [threads EXCEPT ![c] =
          [pc |-> "ranked", op |-> "recommend", interests |-> threads[c].interests,
           top_n |-> threads[c].top_n,
           ranked |-> SliceTo(SortedDesc(ScoredOf(c)), threads[c].top_n)]]
    /\ UNCHANGED <<sessions, weights, call, result, get_events_calls, serviceVars, imported, accessVars>>

\* conflicts = _count_conflicts(...); return {...}
ReturnRecommend(c) ==
    /\ threads[c].pc = "ranked"
    /\ threads' = [threads EXCEPT ![c] =
          [pc |-> "done", op |-> "recommend", interests |-> threads[c].interests,
           top_n |-> threads[c].top_n, result |-> RankedResult(threads[c].ranked)]]
    /\ UNCHANGED <<sessions, weights, call, result, get_events_calls, serviceVars, imported, accessVars>>

\* session = next((s for s in sessions if ...), None)
FindStep(c) ==
    /\ threads[c].pc = "called"
    /\ threads[c].op = "explain"
    /\ threads' = [threads EXCEPT ![c] =
          [pc |-> "found", op |-> "explain", title |-> threads[c].title,
           interests |-> threads[c].interests,
           session |-> FirstMatch(sessions, threads[c].title)]]
    /\ UNCHANGED <<sessions, weights, call, result, get_events_calls, serviceVars, imported, accessVars>>

\* if not session: return {...}; detail = score_session(...); return {...}
ReturnExplain(c) ==
    /\ threads[c].pc = "found"
    /\ threads' = [threads EXCEPT ![c] =
          [pc |-> "done", op |-> "explain", title |-> threads[c].title,
           interests |-> threads[c].interests,
           result |->
              IF threads[c].session = {} THEN NotFound(threads[c].title)
              ELSE Explained(sessions[CHOOSE i \in threads[c].session : TRUE],
                             score_session(sessions[CHOOSE i \in threads[c].session : TRUE],
                                           threads[c].interests, weights),
                             threads[c].interests)]]
    /\ UNCHANGED <<sessions, weights, call, result, get_events_calls, serviceVars, imported, accessVars>>

ScoreOne(c) ==
    /\ threads[c].pc = "called"
    /\ threads[c].op = "score_session"
    /\ threads' = [threads EXCEPT ![c] =
          [pc |-> "done", op |-> "score_session", index |-> threads[c].index,
           interests |-> threads[c].interests,
           result |-> score_session(sessions[threads[c].index], threads[c].interests,
                                    weights)]]
    /\ UNCHANGED <<sessions, weights, call, result, get_events_calls, serviceVars, imported, accessVars>>

CountStep(c) ==
    /\ threads[c].pc = "called"
    /\ threads[c].op = "count_conflicts"
    /\ threads' = [threads EXCEPT ![c] =
          [pc |-> "done", op |-> "count_conflicts",
           result |-> [conflicts |-> _count_conflicts(sessions)]]]
    /\ UNCHANGED <<sessions, weights, call, result, get_events_calls, serviceVars, imported, accessVars>>

\* the caller takes the result; the frame is gone
Resume(c) ==
    /\ threads[c].pc = "done"
    /\ threads' = [threads EXCEPT ![c] = Idle]
    /\ UNCHANGED <<sessions, weights, call, result, get_events_calls, serviceVars, imported, accessVars>>

NextConcurrent ==
    \E c \in Callers :
        \/ Invoke(c)
        \/ ScoreStep(c)
        \/ RankStep(c)
        \/ ReturnRecommend(c)
        \/ FindStep(c)
        \/ ReturnExplain(c)
        \/ ScoreOne(c)
        \/ CountStep(c)
        \/ Resume(c)

SpecConcurrent == InitConcurrent /\ [][NextConcurrent]_vars

(***************************************************************************)
(* The SDK adapter: tool calls on an EventKitAgent                         *)
(***************************************************************************)
NoParameter == [k \in {} |-> TRUE]

ToolParameters ==
    {i @@ t @@ g @@ c :
        i \in {NoParameter, [interests |-> <<>>], [interests |-> <<" ", ",", " ">>],
               [interests |-> <<"a", "i", ",", " ", "m", "l">>]},
        t \in {NoParameter, [session_title |-> <<>>], [session_title |-> <<"s", "2">>]},
        g \in {NoParameter, [use_graph |-> TRUE]},
        c \in {NoParameter, [correlation_id |-> "c1"]}}

ToolNames == tool_handlers \cup {"nonexistent_tool"}

\* what the collaborators of the call do: the graph setting, the exception
\* the engine raises, the exception the telemetry client raises
ToolEnvironments ==
    {[graph_enabled |-> g, engine_error |-> e, telemetry_error |-> t] :
        g \in BOOLEAN, e \in {None, "ValueError"}, t \in {None, "OSError"}}

\* imported is FALSE when the adapter's import of core, settings and errors
\* failed while the module was loaded
InitAdapter ==
    /\ sessions \in ConcurrentPools
    /\ weights = DefaultWeights
    /\ call = NoCall
    /\ result = NoResult
    /\ threads = NoThreads
    /\ get_events_calls = <<>>
    /\ NoGraphService
    /\ imported \in BOOLEAN
    /\ NoAccess

HandleToolCall ==
    \E tool_name \in ToolNames, parameters \in ToolParameters, env \in ToolEnvironments :
        /\ call = NoCall
        /\ call' = [op |-> "handle_tool_call", tool_name |-> tool_name,
                    parameters |-> parameters, env |-> env]
        /\ result' = handle_tool_call(manifest, tool_name, parameters, imported, env)
        /\ UNCHANGED <<sessions, weights, threads, get_events_calls, serviceVars, imported, accessVars>>

NextAdapter == HandleToolCall \/ Return

SpecAdapter == InitAdapter /\ [][NextAdapter]_vars

(***************************************************************************)
(* One GraphEventService, the clock and the Graph API.  call and result    *)
(* are the last call made on the service and its outcome, graph_api the    *)
(* traffic that call caused, history the time and content of the fetch     *)
(* behind every cached entry.                                              *)
(***************************************************************************)
CacheTtls == {2}

StartTimes == {<<>>, <<1>>}
EndTimes == {<<>>}
ServiceTops == {10, 50}

ApiResponses ==
    {<<[subject |-> "Event 1"]>>,
     <<[subject |-> "Event 2", isCancelled |-> TRUE], [subject |-> "Event 3"]>>}

ApiOutcomes ==
    {[kind |-> "token_error"], [kind |-> "network_error"]}
    \cup {[kind |-> "response", status |-> 200, value |-> v] : v \in ApiResponses}
    \cup {[kind |-> "response", status |-> 429, retry_after |-> r] : r \in {<<>>, <<1>>}}
    \cup {[kind |-> "response", status |-> st] : st \in {401, 500}}

InitService ==
    /\ sessions = <<>>
    /\ weights = DefaultWeights
    /\ call = NoCall
    /\ result = NoResult
    /\ threads = NoThreads
    /\ get_events_calls = <<>>
    /\ imported = TRUE
    /\ NoAccess
    /\ service \in {[cache_ttl |-> ttl, _cache |-> <<>>, _cache_time |-> 0,
                     _rate_limit_retry_after |-> 0] : ttl \in CacheTtls}
    /\ now = 1
    /\ graph_api = NoTraffic
    /\ history = <<>>

GetEvents ==
    \E start_time \in StartTimes, end_time \in EndTimes, top \in ServiceTops,
       api \in ApiOutcomes :
        LET done == get_events(service, now, start_time, end_time, top, api)
        IN  /\ call' = [op |-> "get_events", start_time |-> start_time,
                        end_time |-> end_time, top |-> top, at |-> now]
            /\ result' = done.outcome
            /\ service' = done.service
            /\ graph_api' = done.traffic
            /\ history' = IF "returned" \in DOMAIN done.outcome /\ done.traffic # NoTraffic
                          THEN Put(history, KeyOf(now, start_time, end_time, top),
                                   [at |-> now, events |-> done.outcome.returned])
                          ELSE history
            /\ UNCHANGED <<sessions, weights, threads, get_events_calls, imported, accessVars, now>>

ClearCache ==
    /\ call' = [op |-> "clear_cache", at |-> now]
    /\ result' = NoResult
    /\ service' = clear_cache(service)
    /\ graph_api' = NoTraffic
    /\ history' = <<>>
    /\ UNCHANGED <<sessions, weights, threads, get_events_calls, imported, accessVars, now>>

\* a second passes
Tick ==
    /\ now < MaxTime
    /\ now' = now + 1
    /\ UNCHANGED <<sessions, weights, call, result, threads, get_events_calls, imported, accessVars,
                   service, graph_api, history>>

NextService == GetEvents \/ ClearCache \/ Tick

SpecService == InitService /\ [][NextService]_vars

(***************************************************************************)
(* The token cache of GraphAuthClient: processes come and go, each one     *)
(* constructing a client over the same cache file, while the clock runs.   *)
(***************************************************************************)
ExpiresIns == {BufferSeconds + 1, BufferSeconds + 2}

MsalOutcomes ==
    {[kind |-> "error"]} \cup {[kind |-> "token", expires_in |-> e] : e \in ExpiresIns}

MsalAnswer(msal, t) ==
    IF msal.kind = "token" THEN [kind |-> "token", value |-> TokenResponse(t, msal.expires_in)]
    ELSE msal

InitAuth ==
    /\ sessions = <<>>
    /\ weights = DefaultWeights
    /\ call = NoCall
    /\ result = NoResult
    /\ threads = NoThreads
    /\ get_events_calls = <<>>
    /\ imported = TRUE
    /\ service = NoService
    /\ now = 1
    /\ graph_api = NoTraffic
    /\ history = <<>>
    /\ auth = NoClient
    /\ cache_file = NoFile
    /\ limiter = NoLimiter

Construct ==
    /\ call' = [op |-> "GraphAuthClient", at |-> now]
    /\ result' = NoResult
    /\ auth' = GraphAuthClient(cache_file, now)
    /\ UNCHANGED <<sessions, weights, threads, get_events_calls, imported, serviceVars,
                   cache_file, limiter>>

GetAccessToken ==
    /\ auth # NoClient
    /\ \E msal \in MsalOutcomes, disk_ok \in BOOLEAN :
        LET done == get_access_token(auth, cache_file, now, MsalAnswer(msal, now), disk_ok)
        IN  /\ call' = [op |-> "get_access_token", at |-> now, msal_calls |-> done.msal_calls]
            /\ result' = done.outcome
            /\ auth' = done.auth
            /\ cache_file' = done.cache_file
    /\ UNCHANGED <<sessions, weights, threads, get_events_calls, imported, serviceVars, limiter>>

NextAuth == Construct \/ GetAccessToken \/ Tick

SpecAuth == InitAuth /\ [][NextAuth]_vars

(***************************************************************************)
(* One RateLimiter and the clock.  history is the list of the calls made   *)
(* to is_allowed so far: who asked, when, and what was answered.           *)
(***************************************************************************)
Ips == {"192.168.1.4", "192.168.1.5"}
RequestsPerMinute == {1, 2}
WindowSeconds == {2}

InitLimiter ==
    /\ sessions = <<>>
    /\ weights = DefaultWeights
    /\ call = NoCall
    /\ result = NoResult
    /\ threads = NoThreads
    /\ get_events_calls = <<>>
    /\ imported = TRUE
    /\ service = NoService
    /\ now = 1
    /\ graph_api = NoTraffic
    /\ history = <<>>
    /\ auth = NoClient
    /\ cache_file = NoFile
    /\ limiter \in {RateLimiter(n, w) : n \in RequestsPerMinute, w \in WindowSeconds}

IsAllowed ==
    /\ Len(history) < MaxRequests
    /\ \E ip \in Ips :
        LET done == is_allowed(limiter, ip, now)
        IN  /\ call' = [op |-> "is_allowed", ip |-> ip, at |-> now]
            /\ result' = Returned(done.returned)
            /\ limiter' = done.limiter
            /\ history' = Append(history, [ip |-> ip, at |-> now, granted |-> done.returned])
    /\ UNCHANGED <<sessions, weights, threads, get_events_calls, imported,
                   service, now, graph_api, auth, cache_file>>

CleanupOldEntries ==
    /\ call' = [op |-> "cleanup_old_entries", at |-> now]
    /\ result' = NoResult
    /\ limiter' = cleanup_old_entries(limiter, now)
    /\ UNCHANGED <<sessions, weights, threads, get_events_calls, imported,
                   serviceVars, auth, cache_file>>

NextLimiter == IsAllowed \/ CleanupOldEntries \/ Tick

SpecLimiter == InitLimiter /\ [][NextLimiter]_vars

(***************************************************************************)
(* _parse_message on its own: chat messages of a few words                 *)
(***************************************************************************)
str_bot == <<"@", "b", "o", "t">>
str_export == <<"e", "x", "p", "o", "r", "t">>
str_top == <<"t", "o", "p">>

ChatWords == {str_bot, str_export, ai, <<"-", "-">> \o str_top, <<"5">>}

ChatMessages == {Join(ws) : ws \in SeqsUpTo(ChatWords, MaxWords)}

InitParse ==
    /\ sessions = <<>>
    /\ weights = DefaultWeights
    /\ call = NoCall
    /\ result = NoResult
    /\ threads = NoThreads
    /\ get_events_calls = <<>>
    /\ NoGraphService
    /\ imported = TRUE
    /\ NoAccess

ParseMessage ==
    /\ call = NoCall
    /\ \E message \in ChatMessages :
        /\ call' = [op |-> "_parse_message", message |-> message]
        /\ result' = Returned(_parse_message(message))
    /\ UNCHANGED <<sessions, weights, threads, get_events_calls, imported, serviceVars, accessVars>>

NextParse == ParseMessage \/ Return

SpecParse == InitParse /\ [][NextParse]_vars

(***************************************************************************)
(* The HTTP server: GET requests, one at a time                            *)
(***************************************************************************)
str_token == <<"s", "3">>

Paths == {"/health", "/recommend", "/explain", "/export", "/recommend-graph", "/metrics"}

ApiTokens == {<<>>, <<<<>>>>, <<str_token>>}

AuthorizationHeaders ==
    {<<>>, <<str_bearer \o str_token>>, <<str_bearer \o <<"x">>>>, <<str_token>>, <<str_bearer>>}

Profiles == [demo |-> <<<<"A", "I">>>>]

GetRequests ==
    [path : Paths,
     authorization : AuthorizationHeaders,
     interests : {<<>>, <<"A", "I">>},
     profileLoad : {<<>>, <<"demo">>},
     session : {<<>>, Titles[1]}]

ServerEnvironments ==
    [API_TOKEN : ApiTokens,
     storage_file : {TRUE},
     profiles : {Profiles},
     max_sessions_default : {MaxTop},
     export_enabled : BOOLEAN,
     graph : {"unavailable", "not_configured", "error", "ok"}]

InitServer ==
    /\ sessions \in {pool \in CalendarPools : Len(pool) <= 1}
    /\ weights = DefaultWeights
    /\ call = NoCall
    /\ result = NoResult
    /\ threads = NoThreads
    /\ get_events_calls = <<>>
    /\ NoGraphService
    /\ imported = TRUE
    /\ NoAccess

DoGet ==
    /\ call = NoCall
    /\ \E request \in GetRequests, env \in ServerEnvironments :
        /\ call' = [op |-> "do_GET", request |-> request, env |-> env]
        /\ result' = do_GET(manifest, request, env)
    /\ UNCHANGED <<sessions, weights, threads, get_events_calls, imported, serviceVars, accessVars>>

NextServer == DoGet \/ Return

SpecServer == InitServer /\ [][NextServer]_vars

(***************************************************************************)
(* recommend under another diversity weight: the manifest's weights with   *)
(* weights.diversity replaced.  The popularities are one quantum apart.    *)
(***************************************************************************)
ClosePops == {FromRatio(128, 1024), FromRatio(129, 1024)}

\* the first two sessions share a slot
DiversitySession(i) ==
    {[title |-> Titles[i], tags |-> t, popularity |-> p, start |-> "09:00",
      end |-> IF i <= 2 THEN "10:00" ELSE "11:00"] :
        t \in RankTags, p \in ClosePops}

DiversityPools ==
    UNION {{pool \in [1..k -> UNION {DiversitySession(i) : i \in 1..k}] :
                \A i \in 1..k : pool[i].title = Titles[i]} : k \in 0..MaxSessions}

Diversities == {0, FromRatio(3, 10), FromInt(30)}

DiversityInterests == {<<>>, <<ai>>, <<ml>>}

WithDiversity(m, d) == [m EXCEPT !.weights = [@ EXCEPT !.diversity = d]]

InitDiversity ==
    /\ sessions \in DiversityPools
    /\ weights \in WeightConfigs
    /\ call = NoCall
    /\ result = NoResult
    /\ threads = NoThreads
    /\ get_events_calls = <<>>
    /\ NoGraphService
    /\ imported = TRUE
    /\ NoAccess

RecommendWithDiversity ==
    /\ call = NoCall
    /\ \E interests \in DiversityInterests, top_n \in TopNs, d \in Diversities :
        /\ call' = [op |-> "recommend_with_diversity", interests |-> interests,
                    top_n |-> top_n, diversity |-> d]
        /\ result' = recommend(WithDiversity(manifest, d), interests, top_n)
    /\ UNCHANGED <<sessions, weights, threads, get_events_calls, imported, serviceVars, accessVars>>

NextDiversity == RecommendWithDiversity \/ Return

SpecDiversity == InitDiversity /\ [][NextDiversity]_vars

(***************************************************************************)
(* Properties                                                              *)
(***************************************************************************)
IsRanking == call.op \in {"recommend", "recommend_from_graph"} /\ "scoring" \in DOMAIN result

\* the interest list the scoring of the current call works with
CallInterests ==
    IF call.op = "recommend_from_graph" THEN NormalizedInterests(call.interests)
    ELSE call.interests

ReturnedTitles == {result.sessions[i].title : i \in 1..Len(result.sessions)}

PoolIndex(title) == CHOOSE j \in 1..Len(sessions) : sessions[j].title = title

\* the weights the scoring of the current call works with
CallWeights ==
    IF call.op = "recommend_from_graph" /\ call.weights = NoWeights THEN DefaultWeights
    ELSE weights

CandidateScore(j) == score_session(sessions[j], CallInterests, CallWeights).score

\* C1: for top_n > 0 recommend returns exactly min(top_n, number of candidates)
\* ranked sessions, each of them a distinct candidate of the pool, with a
\* scoring list of the same length; it never returns an error.
C1_RecommendLength ==
    (call.op = "recommend" /\ call.top_n > 0) =>
        /\ DOMAIN result = {"sessions", "scoring", "conflicts"}
        /\ Len(result.sessions) =
              (IF call.top_n < Len(sessions) THEN call.top_n ELSE Len(sessions))
        /\ Len(result.scoring) = Len(result.sessions)
        /\ \A i \in 1..Len(result.sessions) :
              \E j \in 1..Len(sessions) : result.sessions[i] = sessions[j]
        /\ Cardinality(ReturnedTitles) = Len(result.sessions)

C1_Witness ==
    /\ call.op = "recommend"
    /\ call.top_n > 0
    /\ call.top_n < Len(sessions)
    /\ Len(result.sessions) = call.top_n

\* C2: the sessions returned by recommend and recommend_from_graph come in
\* non-increasing score order, carry the score of their candidate, and no
\* candidate left out scores strictly more than a returned one.
C2_TopScoresDescending ==
    IsRanking =>
        /\ \A i \in 1..(Len(result.scoring) - 1) :
              result.scoring[i].score >= result.scoring[i + 1].score
        /\ \A i \in 1..Len(result.scoring) :
              /\ result.scoring[i].title = result.sessions[i].title
              /\ result.sessions[i] = sessions[PoolIndex(result.scoring[i].title)]
              /\ result.scoring[i].score = CandidateScore(PoolIndex(result.scoring[i].title))
        /\ \A j \in 1..Len(sessions) :
              sessions[j].title \notin ReturnedTitles =>
                  \A i \in 1..Len(result.scoring) :
                      CandidateScore(j) <= result.scoring[i].score

\* the later candidate outscores the earlier one and the cut drops the earlier
C2_Witness ==
    /\ call.op = "recommend_from_graph"
    /\ "scoring" \in DOMAIN result
    /\ call.top_n = 1
    /\ Len(sessions) = 2
    /\ result.sessions = <<sessions[2]>>
    /\ result.scoring[1].score > CandidateScore(1)

\* C3: ranking is stable: returned sessions of equal score keep their
\* candidate-pool order, and of two candidates of equal score the later one
\* is returned only if the earlier one is.
C3_StableRanking ==
    (call.op = "recommend" /\ "scoring" \in DOMAIN result) =>
        /\ \A a, b \in 1..Len(result.scoring) :
              (a < b /\ result.scoring[a].score = result.scoring[b].score) =>
                  PoolIndex(result.scoring[a].title) < PoolIndex(result.scoring[b].title)
        /\ \A i, j \in 1..Len(sessions) :
              (i < j /\ CandidateScore(i) = CandidateScore(j)
                     /\ sessions[j].title \in ReturnedTitles) =>
                  sessions[i].title \in ReturnedTitles

\* two candidates that differ in tags and popularity tie across the cut
C3_Witness ==
    /\ call.op = "recommend"
    /\ Len(sessions) = 2
    /\ call.top_n = 1
    /\ sessions[1].tags # sessions[2].tags
    /\ CandidateScore(1) = CandidateScore(2)
    /\ result.sessions = <<sessions[1]>>

IsScoring == call.op = "score_session"

ScoredSession == sessions[call.index]

\* an interest as the callers are to supply it: lowercased and trimmed
IsNormalized(interest) == Lower(interest) = interest /\ Strip(interest) = interest

\* number of tag entries whose lowercased text is one of the interests
RECURSIVE MatchingEntries(_, _)
MatchingEntries(tags, interests) ==
    IF tags = <<>> THEN 0
    ELSE (IF \E j \in 1..Len(interests) : Lower(Head(tags)) = interests[j] THEN 1 ELSE 0)
         + MatchingEntries(Tail(tags), interests)

LoweredAll(xs) == [j \in 1..Len(xs) |-> Lower(xs[j])]

SessionTags(s) == IF "tags" \in DOMAIN s THEN s.tags ELSE <<>>

\* C4: for normalized interests the interest_match contribution is
\* weights.interest times the number of tag entries whose lowercased text
\* equals some interest exactly; a session without tags gets 0.
C4_ExactTagMatch ==
    (IsScoring /\ \A j \in 1..Len(call.interests) : IsNormalized(call.interests[j])) =>
        /\ result.contributions.interest_match =
              FMul(FromInt(MatchingEntries(SessionTags(ScoredSession), call.interests)),
                   weights.interest)
        /\ SessionTags(ScoredSession) = <<>> => result.contributions.interest_match = 0

\* a tag contained in the interest, then a matching tag; the interest is repeated
C4_Witness ==
    /\ IsScoring
    /\ call.interests = <<ai, ai>>
    /\ SessionTags(ScoredSession) = <<<<"a">>, <<"A", "I">>>>
    /\ result.contributions.interest_match = weights.interest

\* C5: a tag counts as a match whenever it equals some supplied interest
\* ignoring letter case, whatever the case of the tag or of the interest.
C5_CaseInsensitiveMatch ==
    IsScoring =>
        result.contributions.interest_match =
            FMul(FromInt(MatchingEntries(SessionTags(ScoredSession),
                                         LoweredAll(call.interests))),
                 weights.interest)

\* number of distinct entries of a list: those no earlier entry equals
DistinctCount(xs) ==
    Cardinality({i \in 1..Len(xs) : \A j \in 1..(i - 1) : xs[j] # xs[i]})

\* C6: within one recommend call every scored session carries the same
\* diversity contribution, (number of distinct interests) x 0.01 x
\* weights.diversity, whatever the session's fields.
C6_UniformDiversity ==
    (call.op = "recommend") =>
        \A i \in 1..Len(result.scoring) :
            result.scoring[i].contributions.diversity =
                FMul(FMul(FromInt(DistinctCount(call.interests)), Hundredth),
                     weights.diversity)

\* a repeated interest, two returned sessions that differ in every scored field
C6_Witness ==
    /\ call.op = "recommend"
    /\ call.interests = <<ai, ai>>
    /\ Len(result.sessions) = 2
    /\ result.sessions[1].tags # result.sessions[2].tags
    /\ result.sessions[1].popularity # result.sessions[2].popularity
    /\ result.sessions[1].end # result.sessions[2].end
    /\ result.scoring[1].contributions.diversity > 0
    /\ result.scoring[1].contributions.diversity = result.scoring[2].contributions.diversity

\* C7: the score is the sum of the three reported contributions, and the
\* popularity contribution is session.popularity x weights.popularity,
\* 0 for a session without popularity.
C7_ScoreIsSum ==
    IsScoring =>
        /\ result.score =
              FAdd(FAdd(FAdd(0, result.contributions.interest_match),
                        result.contributions.popularity),
                   result.contributions.diversity)
        /\ result.contributions.popularity =
              (IF "popularity" \in DOMAIN ScoredSession
               THEN FMul(ScoredSession.popularity, weights.popularity) ELSE 0)
        /\ result.session = ScoredSession

\* a session without popularity field, the other two contributions at work
C7_Witness ==
    /\ IsScoring
    /\ "popularity" \notin DOMAIN ScoredSession
    /\ result.contributions.interest_match > 0
    /\ result.contributions.diversity > 0
    /\ result.score > result.contributions.interest_match

PopularityOf(s) == IF "popularity" \in DOMAIN s THEN s.popularity ELSE 0

IsEmptyInterestCall == call.op = "recommend" /\ call.interests = <<>>

\* with no interests only the popularity term is left in every score
PopularityOnlyScores ==
    \A i \in 1..Len(result.scoring) :
        /\ result.scoring[i].contributions.interest_match = 0
        /\ result.scoring[i].contributions.diversity = 0
        /\ result.scoring[i].contributions.popularity =
              FMul(PopularityOf(result.sessions[i]), weights.popularity)
        /\ result.scoring[i].score = result.scoring[i].contributions.popularity

\* the returned sessions are ordered by descending key(_), ties in pool order,
\* and go before every candidate left out in that order
OrderedBy(key(_)) ==
    /\ \A a, b \in 1..Len(result.sessions) :
          a < b =>
              \/ key(result.sessions[a]) > key(result.sessions[b])
              \/ /\ key(result.sessions[a]) = key(result.sessions[b])
                 /\ PoolIndex(result.sessions[a].title) < PoolIndex(result.sessions[b].title)
    /\ \A j \in 1..Len(sessions) :
          sessions[j].title \notin ReturnedTitles =>
              \A i \in 1..Len(result.sessions) :
                  \/ key(result.sessions[i]) > key(sessions[j])
                  \/ /\ key(result.sessions[i]) = key(sessions[j])
                     /\ PoolIndex(result.sessions[i].title) < j

PopularityContribution(s) == FMul(PopularityOf(s), weights.popularity)

\* C8 as stated: with an empty interest list every score equals the
\* popularity contribution and the output is ordered by descending
\* popularity, ties in candidate-pool order.
C8_OrderedByPopularity ==
    IsEmptyInterestCall => (PopularityOnlyScores /\ OrderedBy(PopularityOf))

\* C8 amended: with an empty interest list every score equals the
\* popularity contribution popularity x weights.popularity and the output is
\* ordered by descending popularity contribution, ties in pool order.
C8_OrderedByPopularityContribution ==
    IsEmptyInterestCall => (PopularityOnlyScores /\ OrderedBy(PopularityContribution))

\* the more popular second candidate is ranked first
C8_Witness ==
    /\ IsEmptyInterestCall
    /\ Len(sessions) = 2
    /\ sessions[2].popularity > sessions[1].popularity
    /\ result.sessions = <<sessions[2], sessions[1]>>

SlotOf(s) ==
    <<IF "start" \in DOMAIN s THEN s.start ELSE None,
      IF "end" \in DOMAIN s THEN s.end ELSE None>>

\* the (start, end) pairs that two or more sessions of the list share
SharedSlots(ss) ==
    {SlotOf(ss[i]) : i \in {k \in 1..Len(ss) :
                              \E j \in 1..Len(ss) : j # k /\ SlotOf(ss[j]) = SlotOf(ss[k])}}

\* C9: count_conflicts returns the number of distinct (start, end) pairs
\* shared by two or more sessions; sessions whose pairs differ in either
\* component never conflict.
C9_ConflictGroups ==
    (call.op = "count_conflicts") =>
        /\ result.conflicts = Cardinality(SharedSlots(sessions))
        /\ (\A i, j \in 1..Len(sessions) :
               i # j => (SlotOf(sessions[i])[1] # SlotOf(sessions[j])[1]
                         \/ SlotOf(sessions[i])[2] # SlotOf(sessions[j])[2]))
              => result.conflicts = 0

\* three sessions in one slot count once
C9_Witness ==
    /\ call.op = "count_conflicts"
    /\ Len(sessions) = 3
    /\ SlotOf(sessions[1]) = <<"09:00", "10:00">>
    /\ SlotOf(sessions[2]) = SlotOf(sessions[1])
    /\ SlotOf(sessions[3]) = SlotOf(sessions[1])
    /\ result.conflicts = 1

\* C10: the conflict count of a recommendation is the count over the
\* sessions it returns, after the cut to top_n.
C10_ConflictsOfReturned ==
    IsRanking => result.conflicts = Cardinality(SharedSlots(result.sessions))

\* two candidates collide, the cut keeps one of them
C10_Witness ==
    /\ call.op = "recommend"
    /\ call.top_n = 1
    /\ Len(sessions) = 2
    /\ SlotOf(sessions[1]) = SlotOf(sessions[2])
    /\ Len(result.sessions) = 1
    /\ result.conflicts = 0

IsExplain == call.op = "explain"

\* the sessions whose title equals the asked title ignoring letter case
TitleMatches == {i \in 1..Len(sessions) : Lower(sessions[i].title) = Lower(call.title)}

\* C11: explain with a title that matches no session ignoring letter case
\* returns {error: 'session not found', title: the requested title as
\* given} and nothing else: no score, no exception.
C11_ExplainNotFound ==
    (IsExplain /\ TitleMatches = {}) =>
        /\ DOMAIN result = {"error", "title"}
        /\ result.error = "session not found"
        /\ result.title = call.title

\* an upper-case title nobody carries, asked of a non-empty pool
C11_Witness ==
    /\ IsExplain
    /\ Len(sessions) = 2
    /\ call.title = <<"D">>
    /\ "error" \in DOMAIN result

TitlesUniqueIgnoringCase ==
    \A i, j \in 1..Len(sessions) :
        Lower(sessions[i].title) = Lower(sessions[j].title) => i = j

\* what recommend reports for the session at pool index i when nothing is cut
RecommendEntries(i) ==
    {e \in Range(recommend(manifest, call.interests, Len(sessions)).scoring) :
        e.title = sessions[i].title}

\* the tags of s kept by position when their lowercased text is an interest
KeptTags(s, interests) ==
    LET tags == SessionTags(s)
        keep == {k \in 1..Len(tags) : \E j \in 1..Len(interests) : Lower(tags[k]) = interests[j]}
        nth(n) == CHOOSE k \in keep : Cardinality({m \in keep : m < k}) = n - 1
    IN  [n \in 1..Cardinality(keep) |-> tags[nth(n)]]

\* C12: for a pool whose titles are unique ignoring case, explain with a
\* session's title in any letter case returns the score and contributions
\* recommend reports for that session, and matched_tags are the session's
\* tags that match an interest, len(matched_tags) x weights.interest being
\* the interest_match contribution.
C12_ExplainAgreesWithRecommend ==
    (IsExplain /\ TitlesUniqueIgnoringCase) =>
        \A i \in TitleMatches :
            /\ DOMAIN result = {"title", "score", "contributions", "matched_tags"}
            /\ result.title = sessions[i].title
            /\ \A e \in RecommendEntries(i) :
                  result.score = e.score /\ result.contributions = e.contributions
            /\ Cardinality(RecommendEntries(i)) = 1
            /\ result.matched_tags = KeptTags(sessions[i], call.interests)
            /\ FMul(FromInt(Len(result.matched_tags)), weights.interest)
                  = result.contributions.interest_match

\* the second session is asked for in another letter case and has a matching tag
C12_Witness ==
    /\ IsExplain
    /\ TitlesUniqueIgnoringCase
    /\ Len(sessions) = 2
    /\ call.title = <<"m", "l">>
    /\ sessions[2].title = <<"M", "L">>
    /\ "matched_tags" \in DOMAIN result
    /\ result.matched_tags = <<ai>>
    /\ result.contributions.interest_match > 0

\* C13: recommend called with top_n <= 0 returns an empty session list, an
\* empty scoring list and a conflict count of 0.
C13_NonPositiveTopIsEmpty ==
    (call.op = "recommend" /\ call.top_n <= 0) =>
        /\ result.sessions = <<>>
        /\ result.scoring = <<>>
        /\ result.conflicts = 0

InFlight(c) == threads[c].pc \notin {"idle", "done"}

\* C14: recommend, explain, score_session and count_conflicts leave their
\* inputs unchanged: over every step of every call the candidate sessions
\* (fields and order), the weights and the interest list the caller passed
\* stay what they were.
C14_InputsUnchanged ==
    [][\A c \in Callers :
          InFlight(c) =>
              /\ sessions' = sessions
              /\ weights' = weights
              /\ "interests" \in DOMAIN threads[c] =>
                    threads'[c].interests = threads[c].interests]_vars

\* a recommend call has returned the sessions in another order than the
\* pool's, while the pool and the unsorted interest list are as passed
C14_Witness ==
    \E c \in Callers :
        /\ threads[c].pc = "done"
        /\ threads[c].op = "recommend"
        /\ threads[c].interests = <<ml, ai>>
        /\ Len(threads[c].result.sessions) = 2
        /\ threads[c].result.sessions[1] = sessions[2]
        /\ sessions[1].title = Titles[1]

\* what the call of frame f returns when it is the only call
Alone(f) ==
    CASE f.op = "recommend" -> recommend(manifest, f.interests, f.top_n)
      [] f.op = "explain" -> explain(manifest, f.title, f.interests)
      [] f.op = "score_session" -> score_session(sessions[f.index], f.interests, weights)
      [] f.op = "count_conflicts" -> [conflicts |-> _count_conflicts(sessions)]

SameCall(f, g) ==
    /\ f.op = g.op
    /\ \A k \in (DOMAIN f \cap DOMAIN g) \ {"result"} : f[k] = g[k]

\* C15: under any interleaving of calls by several callers, every finished
\* call holds the result the same call returns when run alone, and two
\* finished calls with the same inputs hold the same result.
C15_ResultAsAlone ==
    /\ \A c \in Callers :
          threads[c].pc = "done" => threads[c].result = Alone(threads[c])
    /\ \A c, d \in Callers :
          (threads[c].pc = "done" /\ threads[d].pc = "done"
              /\ SameCall(threads[c], threads[d]))
          => threads[c].result = threads[d].result

\* one caller has its result while another, with other interests, is between
\* scoring and ranking
C15_Witness ==
    \E c, d \in Callers :
        /\ threads[c].pc = "done"
        /\ threads[c].op = "recommend"
        /\ threads[c].interests = <<ml, ai>>
        /\ threads[c].result.sessions[1] = sessions[2]
        /\ threads[d].pc = "scored"
        /\ threads[d].interests = <<>>

IsGraphCall == call.op = "recommend_from_graph"

\* the result of recommend on a manifest made of the events and the weights
\* handed to recommend_from_graph, with the source field added
CatalogRanking ==
    recommend([sessions |-> sessions, weights |-> call.weights], call.interests, call.top_n)
        @@ [source |-> "graph"]

\* C16 as stated: for a non-empty event list, normalized (lowercase, trimmed)
\* interests, given weights and top > 0, recommend_from_graph returns what
\* recommend returns plus source = 'graph'.
C16_SameRanking ==
    (/\ IsGraphCall
     /\ sessions # <<>>
     /\ \A j \in 1..Len(call.interests) : IsNormalized(call.interests[j])
     /\ call.weights # NoWeights
     /\ call.top_n > 0)
    => result = CatalogRanking

\* C16: the same for a non-empty list of interests that are normalized and
\* not blank.
C16_SameRankingNonBlank ==
    (/\ IsGraphCall
     /\ sessions # <<>>
     /\ call.interests # <<>>
     /\ \A j \in 1..Len(call.interests) :
           IsNormalized(call.interests[j]) /\ call.interests[j] # <<>>
     /\ call.weights # NoWeights
     /\ call.top_n > 0)
    => result = CatalogRanking

\* two events, the second ranked first because of its tag
C16_Witness ==
    /\ IsGraphCall
    /\ Len(sessions) = 2
    /\ call.interests = <<ai, ai>>
    /\ call.weights = DefaultWeights
    /\ call.top_n = 2
    /\ result.source = "graph"
    /\ result.sessions[1] = sessions[2]
    /\ result.conflicts = 1

Raises(message) ==
    /\ DOMAIN result = {"error", "message"}
    /\ result.error = "ValueError"
    /\ result.message = message

\* C17 as stated: an empty interest list raises 'At least one interest is
\* required', top <= 0 raises 'top must be a positive integer', both before
\* get_events is called; valid input requests exactly top * 2 events and
\* returns at most top sessions.
C17_EagerValidation ==
    IsGraphCall =>
        /\ call.interests = <<>> =>
              Raises("At least one interest is required") /\ get_events_calls = <<>>
        /\ call.top_n <= 0 =>
              Raises("top must be a positive integer") /\ get_events_calls = <<>>
        /\ (call.interests # <<>> /\ call.top_n > 0) =>
              /\ get_events_calls = <<[top |-> call.top_n * 2]>>
              /\ Len(result.sessions) <= call.top_n

\* C17: the interest list is looked at first, so 'top must be a positive
\* integer' is raised when top <= 0 and the interest list is not empty.
C17_EagerValidationInOrder ==
    IsGraphCall =>
        /\ call.interests = <<>> =>
              Raises("At least one interest is required") /\ get_events_calls = <<>>
        /\ (call.interests # <<>> /\ call.top_n <= 0) =>
              Raises("top must be a positive integer") /\ get_events_calls = <<>>
        /\ (call.interests # <<>> /\ call.top_n > 0) =>
              /\ get_events_calls = <<[top |-> call.top_n * 2]>>
              /\ Len(result.sessions) <= call.top_n

\* a refused top with interests present
C17_Witness ==
    /\ IsGraphCall
    /\ call.interests = <<ai>>
    /\ call.top_n = 0 - 1
    /\ Len(sessions) = 2
    /\ Raises("top must be a positive integer")

IsToolCall == call.op = "handle_tool_call"

\* the exception raised inside the try block of the call, if any
RaisedInside ==
    IF call.tool_name \in tool_handlers
       /\ "raised" \in DOMAIN Executed(manifest, call.tool_name, call.parameters,
                                       imported, call.env)
    THEN {Executed(manifest, call.tool_name, call.parameters, imported, call.env).raised}
    ELSE {}

\* the documented failures of a tool call
DocumentedFailures ==
    /\ call.tool_name \notin tool_handlers =>
          /\ "raised" \in DOMAIN result
          /\ result.raised.type = "InvalidInputError"
    /\ \A e \in RaisedInside :
          /\ "raised" \in DOMAIN result
          /\ IF e.type = InvalidInputErrorName(imported)
                /\ e.message \in {<<"'interests' parameter is required">>,
                                  <<"At least one interest is required">>,
                                  <<"'session_title' parameter is required">>}
             THEN result.raised = e /\ e.type = "InvalidInputError"
             ELSE /\ result.raised.type = "EventKitError"
                  /\ Head(result.raised.message) = "Tool execution failed"
                  /\ result.raised = Failed("EventKitError", e)
    /\ "raised" \in DOMAIN result =>
          result.raised.type \in {"InvalidInputError", "EventKitError"}

IsGetEvents == call.op = "get_events"

\* the cache key of the last call
CallKey == KeyOf(call.at, call.start_time, call.end_time, call.top)

\* this step is a get_events call
GetEventsStep == call'.op = "get_events" /\ call'.at = now /\ now' = now

BackoffActive == service._rate_limit_retry_after > now

C20_ServedOnlyWithinTtl ==
    (IsGetEvents /\ "returned" \in DOMAIN result /\ graph_api = NoTraffic) =>
        /\ CallKey \in DOMAIN history
        /\ call.at - history[CallKey].at < service.cache_ttl

\* the 429 answers received in the step's call, with their Retry-After
RateLimitAnswers == {a \in Range(graph_api'.answers) : a.status = 429}

RetryAfterOf(a) == IF a.retry_after = <<>> THEN DefaultRetryAfter ELSE a.retry_after[1]

IsGetAccessToken == call.op = "get_access_token" /\ "returned" \in DOMAIN result

\* C22: a token that get_access_token returns is not past its expiry less
\* the five-minute buffer: fewer than expires_in - 300 seconds have passed
\* since it was issued, a token loaded from the cache file included.
C22_NoExpiredTokenReturned ==
    IsGetAccessToken => call.at < result.returned.exp - BufferSeconds

\* the requests of ip granted during the window_seconds before t
GrantedInWindow(h, ip, t) ==
    {i \in 1..Len(h) : /\ h[i].ip = ip
                       /\ h[i].granted
                       /\ h[i].at <= t
                       /\ t - h[i].at < limiter.window_seconds}

IsAllowedStep == call'.op = "is_allowed" /\ history' # history

\* C23: is_allowed(ip) returns True exactly when fewer than
\* requests_per_minute requests of that ip were granted during the
\* preceding window_seconds (denied requests and other IPs do not count);
\* hence no IP is granted more than requests_per_minute requests within
\* any window of window_seconds.
C23_GrantedWhenUnderLimit ==
    [][IsAllowedStep =>
        /\ result'.returned =
            (Cardinality(GrantedInWindow(history, call'.ip, now)) < limiter.requests_per_minute)
        /\ \A ip \in Ips, t \in 1..now :
            Cardinality(GrantedInWindow(history', ip, t)) <= limiter.requests_per_minute]_vars

\* an IP that was blocked is granted again after its grants have aged out
C23_Witness ==
    /\ call.op = "is_allowed"
    /\ result = Returned(TRUE)
    /\ \E i, j \in 1..Len(history) :
        /\ i < j /\ j < Len(history)
        /\ history[i].ip = call.ip /\ history[i].granted
        /\ history[j].ip = call.ip /\ ~history[j].granted
        /\ history[Len(history)].ip = call.ip
    /\ \E k \in 1..Len(history) : history[k].ip # call.ip /\ history[k].granted

IsParse == call.op = "_parse_message"

\* the words of the parsed chat message
ChatParts == Split(call.message)

\* where the flags of the message start: after the last positional word
FlagsFrom ==
    IF \E i \in 3..Len(ChatParts) : StartsWithDashes(ChatParts[i])
    THEN CHOOSE i \in 3..Len(ChatParts) :
            /\ StartsWithDashes(ChatParts[i])
            /\ \A j \in 3..(i - 1) : ~StartsWithDashes(ChatParts[j])
    ELSE Len(ChatParts) + 1

\* '@bot <command> <interest words> --<flag> <value>'
IsChatCommand ==
    /\ IsParse
    /\ Len(ChatParts) >= 3
    /\ ChatParts[1] = str_bot
    /\ ~StartsWithDashes(ChatParts[2]) /\ ChatParts[2] # str_bot
    /\ ~StartsWithDashes(ChatParts[3])
    /\ \A i \in FlagsFrom..Len(ChatParts) :
        IF (i - FlagsFrom) % 2 = 0
        THEN StartsWithDashes(ChatParts[i]) /\ i < Len(ChatParts)
        ELSE ~StartsWithDashes(ChatParts[i])

\* C24: a chat message '@bot <command> <interest words> --<flag> <value>'
\* is parsed into the command word, the positional interest text and one
\* parameter per flag; the flags are not part of the interests value.
C24_ParsesChatCommand ==
    IsChatCommand =>
        /\ result.returned.command = ChatParts[2]
        /\ str_interests \in DOMAIN result.returned.params
        /\ result.returned.params[str_interests] = Join(SubSeq(ChatParts, 3, FlagsFrom - 1))
        /\ \A i \in FlagsFrom..Len(ChatParts) :
            (i - FlagsFrom) % 2 = 0 =>
                LET key == SubSeq(ChatParts[i], 3, Len(ChatParts[i]))
                IN  /\ key \in DOMAIN result.returned.params
                    /\ result.returned.params[key] = ChatParts[i + 1]

FetchedBefore == IsGetEvents /\ "returned" \in DOMAIN result /\ graph_api # NoTraffic

\* this step's call is answered from the cache entry the previous call made
ServedFromPrevious ==
    /\ GetEventsStep
    /\ "returned" \in DOMAIN result'
    /\ graph_api' = NoTraffic
    /\ KeyOf(now, call'.start_time, call'.end_time, call'.top) = CallKey

C27_FailureKeepsCache ==
    [][(GetEventsStep /\ "returned" \notin DOMAIN result') =>
        /\ "raised" \in DOMAIN result'
        /\ result'.raised.type = "GraphServiceError"
        /\ service'._cache = service._cache
        /\ service'._cache_time = service._cache_time]_vars

\* an answer 500 of the Graph API with a list in the cache
C27_Witness ==
    /\ IsGetEvents
    /\ result = GraphServiceError("Graph API returned an error status")
    /\ graph_api.answers = <<[status |-> 500]>>
    /\ DOMAIN service._cache # {}
    /\ service._cache_time = call.at - 2

IsGet == call.op = "do_GET"

\* the Authorization header is exactly 'Bearer <API_TOKEN>'
Authorized ==
    /\ call.request.authorization # <<>>
    /\ call.request.authorization[1] = str_bearer \o call.env.API_TOKEN[1]

Unauthorized401 ==
    /\ result.code = 401
    /\ result.payload = [error |-> "unauthorized"]
    /\ result.effects = <<>>

\* C28 as stated: when API_TOKEN is set, a GET request whose Authorization
\* header is not 'Bearer <API_TOKEN>' is answered 401 {error: unauthorized}
\* on every path, with no profile loaded, nothing computed, nothing written.
C28_UnauthorizedRefused ==
    (IsGet /\ call.env.API_TOKEN # <<>> /\ ~Authorized) => Unauthorized401

\* C28: the same when API_TOKEN is set to a value that is not empty.
C28_UnauthorizedRefusedNonEmptyToken ==
    (IsGet /\ call.env.API_TOKEN # <<>> /\ call.env.API_TOKEN[1] # <<>> /\ ~Authorized)
    => Unauthorized401

\* an export asked for with the token alone in the header, refused, where
\* the same request with the right header writes a file
C28_Witness ==
    /\ IsGet
    /\ call.env.API_TOKEN = <<str_token>>
    /\ call.request.authorization = <<str_token>>
    /\ call.request.path = "/export"
    /\ call.env.export_enabled
    /\ Unauthorized401
    /\ do_GET(manifest, [call.request EXCEPT !.authorization = <<str_bearer \o str_token>>],
              call.env).effects
          = <<"load_profile", "recommend", "write_text">>

SlotFields(s) == DOMAIN s \cap {"start", "end"}

\* the same fields are missing and the fields present are equal
SameGroup(a, b) ==
    /\ SlotFields(a) = SlotFields(b)
    /\ \A f \in SlotFields(a) : a[f] = b[f]

\* the first session of every group of two or more
GroupLeaders(ss) ==
    {i \in 1..Len(ss) : /\ \A j \in 1..(i - 1) : ~SameGroup(ss[j], ss[i])
                        /\ \E j \in (i + 1)..Len(ss) : SameGroup(ss[i], ss[j])}

Bare(ss) == {i \in 1..Len(ss) : SlotFields(ss[i]) = {}}

\* C30: sessions with neither start nor end form one group, which adds
\* exactly 1 to the count when it has two or more members; a session
\* missing one field groups only with sessions missing the same field and
\* equal in the other.
C30_MissingFieldsGrouped ==
    (call.op = "count_conflicts") =>
        /\ result.conflicts = Cardinality(GroupLeaders(sessions))
        /\ result.conflicts =
              Cardinality({i \in GroupLeaders(sessions) : i \notin Bare(sessions)})
              + (IF Cardinality(Bare(sessions)) >= 2 THEN 1 ELSE 0)

\* two sessions without a slot and one with a start only
C30_Witness ==
    /\ call.op = "count_conflicts"
    /\ Len(sessions) = 3
    /\ Cardinality(Bare(sessions)) = 2
    /\ \E i \in 1..3 : SlotFields(sessions[i]) = {"start"}
    /\ result.conflicts = 1

IsDiversityCall == call.op = "recommend_with_diversity" /\ call.diversity # weights.diversity

\* the same call under the weights of the manifest
UnderManifestWeights == recommend(manifest, call.interests, call.top_n)

\* C29 as stated: changing only weights.diversity leaves the ranked session
\* list and the conflict count of recommend unchanged.
C29_DiversityIrrelevant ==
    IsDiversityCall =>
        /\ result.sessions = UnderManifestWeights.sessions
        /\ result.conflicts = UnderManifestWeights.conflicts

ScoreUnder(i, d) ==
    score_session(sessions[i], call.interests, WithDiversity(manifest, d).weights).score

\* the same pairs of sessions have equal scores under both diversity weights
SameTies ==
    \A i, j \in 1..Len(sessions) :
        (ScoreUnder(i, weights.diversity) = ScoreUnder(j, weights.diversity))
            <=> (ScoreUnder(i, call.diversity) = ScoreUnder(j, call.diversity))

\* the sum of the interest and popularity contributions of a scored session
BaseScore(d) == FAdd(FAdd(0, d.contributions.interest_match), d.contributions.popularity)

\* C29: changing only weights.diversity leaves the ranked list and the
\* conflict count unchanged whenever the offset rounds no two different
\* scores to the same float; a session is ranked above one whose interest
\* and popularity contributions add up to more only when their scores are
\* rounded to the same float.
C29_DiversityKeepsOrder ==
    IsDiversityCall =>
        /\ \A i, j \in 1..Len(result.scoring) :
            i < j => \/ BaseScore(result.scoring[i]) >= BaseScore(result.scoring[j])
                     \/ result.scoring[i].score = result.scoring[j].score
        /\ SameTies =>
            /\ result.sessions = UnderManifestWeights.sessions
            /\ result.conflicts = UnderManifestWeights.conflicts

\* two sessions ranked against the order of the pool, under both weights
C29_Witness ==
    /\ IsDiversityCall
    /\ call.diversity = FromInt(30)
    /\ call.interests = <<ai>>
    /\ Len(sessions) = 2
    /\ SameTies
    /\ Len(result.sessions) = 2
    /\ result.sessions[1] = sessions[2]
    /\ result.scoring[1].contributions.diversity > 0
    /\ result.sessions = UnderManifestWeights.sessions

====
